---- MODULE Spec2Model ----
(***************************************************************************)
(* A model of the tb-mentor-api retrieval service (src/api/tb-mentor.js,   *)
(* the tb-rag-query part): the process-wide corpus cache RAG_STORE, the    *)
(* request handler as a coroutine that suspends at its two awaits          *)
(* (loadRagStore and embedQuestion), and the pure functions it calls; and   *)
(* of the pediatric scoring endpoint and the mentor handler with its tool  *)
(* loop (src/api/tb_peds_tda.js).                                          *)
(*                                                                         *)
(* Conventions.                                                            *)
(*  - JavaScript strings are TLA+ strings; includes, toLowerCase and trim  *)
(*    are computed character by character.                                 *)
(*  - A request field whose JavaScript type matters is a tagged record     *)
(*    [t |-> type, v |-> value].  A chunk field that the manifest omits is *)
(*    the empty string: every use the code makes of a chunk field treats   *)
(*    undefined and "" alike ((c.x || ""), !id).                           *)
(*  - Numbers are fixed point.  Unit vectors are in units of 1/VecUnit,    *)
(*    scores in units of 1/ScoreUnit.                                      *)
(***************************************************************************)
EXTENDS Integers, Sequences, FiniteSets, TLC

VARIABLES
  disk,       \* the files under public/rag as the next read would find them
  RAG_STORE,  \* the module-level cache (tb-mentor.js:365)
  fileReads,  \* how many times loadRagStore has read the corpus files
  pc,         \* per request slot: where the handler is suspended
  req,        \* per request slot: the request being served
  loc,        \* per request slot: the handler's local variables
  res,        \* per request slot: the response sent
  fnIn,       \* unit application of a pure function: its arguments
  fnOut,      \* unit application of a pure function: its result
  mentor      \* the tb-mentor handler serving a request: its position,
              \* its messages, its response and the calls it has made

vars == <<disk, RAG_STORE, fileReads, pc, req, loc, res, fnIn, fnOut, mentor>>

serverVars == <<disk, RAG_STORE, fileReads, pc, req, loc, res, mentor>>

-----------------------------------------------------------------------------
(* JavaScript values and strings *)

JSUndefined == [t |-> "undefined"]

JSNull == [t |-> "null"]

JSStr(s) == [t |-> "string", v |-> s]

JSNum(n) == [t |-> "number", v |-> n]

JSBool(b) == [t |-> "boolean", v |-> b]

\* An object or array value whose content the handler never looks at.
JSObject == [t |-> "object"]

\* JavaScript truthiness of a tagged value.
Truthy(x) ==
  CASE x.t = "string" -> x.v # ""
    [] x.t = "number" -> x.v # 0
    [] x.t = "boolean" -> x.v
    [] x.t = "object" -> TRUE
    [] OTHER -> FALSE

Min(a, b) == IF a <= b THEN a ELSE b

Max(a, b) == IF a >= b THEN a ELSE b

\* String.prototype.includes
includes(s, kw) ==
  \E i \in 1..(Len(s) - Len(kw) + 1) : SubSeq(s, i, i + Len(kw) - 1) = kw

UpperToLower ==
  [c \in {"A","B","C","D","E","F","G","H","I","J","K","L","M",
          "N","O","P","Q","R","S","T","U","V","W","X","Y","Z"} |->
     CASE c = "A" -> "a" [] c = "B" -> "b" [] c = "C" -> "c" [] c = "D" -> "d"
       [] c = "E" -> "e" [] c = "F" -> "f" [] c = "G" -> "g" [] c = "H" -> "h"
       [] c = "I" -> "i" [] c = "J" -> "j" [] c = "K" -> "k" [] c = "L" -> "l"
       [] c = "M" -> "m" [] c = "N" -> "n" [] c = "O" -> "o" [] c = "P" -> "p"
       [] c = "Q" -> "q" [] c = "R" -> "r" [] c = "S" -> "s" [] c = "T" -> "t"
       [] c = "U" -> "u" [] c = "V" -> "v" [] c = "W" -> "w" [] c = "X" -> "x"
       [] c = "Y" -> "y" [] c = "Z" -> "z"]

RECURSIVE LowerFrom(_, _)
LowerFrom(s, i) ==
  IF i > Len(s) THEN ""
  ELSE LET c == SubSeq(s, i, i)
       IN (IF c \in DOMAIN UpperToLower THEN UpperToLower[c] ELSE c)
            \o LowerFrom(s, i + 1)

\* String.prototype.toLowerCase
toLowerCase(s) == LowerFrom(s, 1)

\* !s.trim(): the string is empty or holds white space only.
IsBlank(s) == \A i \in 1..Len(s) : SubSeq(s, i, i) = " "

-----------------------------------------------------------------------------
(* Intent classifier and scope resolver *)

\* The closure has = (words) => words.some((w) => q.includes(w)).
has(q, words) == \E w \in words : includes(q, w)

inferIntentFlags(question) ==
  LET q == toLowerCase(question)
      group(flagNames, words) == IF has(q, words) THEN flagNames ELSE {}
  IN IF q = "" THEN {}
     ELSE
       group({"screening"},
             {"screening", "systematic screening", "triage", "ai-assisted",
              "ai assisted", "cxr screening", "screen for tb"})
       \cup
       group({"diagnostic_workup"},
             {"diagnos", "algorithm", "cxr", "x-ray", "xray", "radiograph",
              "xpert", "ultra", "naat", "truenat", "lamp", "wrd", "wrds",
              "lpa", "smear", "culture", "dst", "drug susceptibility"})
       \cup
       group({"prevention_and_ltbi"},
             {"tpt", "preventive treatment", "tb preventive treatment",
              "tb infection", "latent tb", "ltbi", "isoniazid preventive",
              "inh preventive"})
       \cup
       group({"infection_prevention_and_control"},
             {"infection prevention", "ipc", "airborne infection",
              "ventilation", "uvgi", "n95", "respirator", "masking",
              "administrative controls", "environmental controls"})
       \cup
       group({"regimen_selection"},
             {"start treatment", "starting treatment", "initial regimen",
              "which regimen", "what regimen", "choose regimen",
              "choice of regimen", "regimen choice"})
       \cup
       group({"regimen_modification"},
             {"change regimen", "switch regimen", "modify regimen",
              "regimen modification", "adjust regimen", "add drug",
              "add a drug", "remove drug", "stop drug", "substitute",
              "substitution"})
       \cup
       group({"toxicity_management"},
             {"toxicity", "adverse event", "side effect",
              "peripheral neuropathy", "neuropathy", "optic neuritis",
              "myelosuppression", "anaemia", "anemia", "thrombocytopenia",
              "hepatotoxicity", "liver toxicity", "vomiting", "nausea",
              "abdominal pain", "hyperpigmentation", "qt prolongation",
              "qt-prolonging", "cardiac toxicity"})
       \cup
       group({"monitoring_schedule"},
             {"monitoring", "follow-up", "follow up", "schedule", "how often",
              "how frequently", "baseline tests", "baseline investigations",
              "routine monitoring", "post-treatment monitoring"})
       \cup
       group({"treatment_failure_or_reversion"},
             {"treatment failure", "failed treatment", "failure of treatment",
              "culture reversion", "remains culture-positive",
              "remains culture positive", "persistent positive",
              "recurrent tb", "relapse"})
       \cup
       group({"special_populations"},
             {"pregnant", "pregnancy", "breastfeeding", "lactating",
              "postpartum", "child", "children", "paediatric", "pediatric",
              "adolescent", "infant", "neonate"})
       \cup
       group({"drug_resistance"},
             {"mdr-tb", "mdr tb", "xdr-tb", "xdr tb", "pre-xdr", "pre xdr",
              "rr-tb", "rr tb", "rifampicin-resistant", "rifampin-resistant",
              "drug-resistant tb", "drug resistant tb",
              "fluoroquinolone-resistant", "fluoroquinolone resistance"})
       \cup
       group({"tpt"},
             {"tpt", "tb preventive treatment", "tb preventive therapy",
              "preventive treatment", "preventive therapy", "ipt",
              "isoniazid preventive therapy", "3hp", "1hp", "3hr", "4r",
              "latent tb infection treatment", "ltbi treatment",
              "tb infection treatment", "tb infection therapy"})
       \cup
       group({"dr_tpt", "tpt"},
             {"levofloxacin preventive", "levofloxacin prophylaxis", "6lfx",
              "6 months of levofloxacin", "mdr-tb contact", "mdr tb contact",
              "rr-tb contact", "rr tb contact", "contact of mdr-tb",
              "household contact of mdr-tb"})
       \cup
       group({"comorbidities"},
             {"hiv", "plhiv", "cd4", "viral load", "diabetes", "diabetic",
              "renal failure", "kidney disease", "ckd", "cirrhosis",
              "liver disease", "alcohol use", "harmful use", "substance use",
              "drug use", "depression", "anxiety", "mental health",
              "hepatitis", "hbv", "hcv"})

\* Every flag inferIntentFlags can push.
IntentFlagNames ==
  {"screening", "diagnostic_workup", "prevention_and_ltbi",
   "infection_prevention_and_control", "regimen_selection",
   "regimen_modification", "toxicity_management", "monitoring_schedule",
   "treatment_failure_or_reversion", "special_populations",
   "drug_resistance", "tpt", "dr_tpt", "comorbidities"}

inferPopulationContext(flags) ==
  [special_populations |-> "special_populations" \in flags,
   comorbidities |-> "comorbidities" \in flags]

\* keywordScore: the keyword lists hold no repeats, so the count of the loop
\* is the number of keywords found.
keywordScore(text, keywords) ==
  Cardinality({kw \in keywords : includes(text, kw)})

\* The result null is the empty string.
NoScope == ""

\* The order with diagnosis put before treatment: what the priority loop
\* would do if the array were written in another order.
topicPriorityDiagnosisFirst ==
  <<"diagnosis", "treatment", "prevention", "screening">>

\* const topicPriority = [...]: the first candidate present, in this order.
topicPriority == <<"treatment", "diagnosis", "prevention", "screening">>

\* The loop over topicPriority: the first entry that is a candidate, or
\* NoScope when none is.
FirstByPriority(priority, candidates) ==
  IF \E i \in 1..Len(priority) : priority[i] \in candidates
  THEN priority[CHOOSE i \in 1..Len(priority) :
                  /\ priority[i] \in candidates
                  /\ \A j \in 1..(i - 1) : priority[j] \notin candidates]
  ELSE NoScope

\* Step 1 of inferScopeFromQuestion: flags to topic candidates.
topicCandidates(flags) ==
  (IF "prevention_and_ltbi" \in flags
      \/ "infection_prevention_and_control" \in flags
   THEN {"prevention"} ELSE {})
  \cup (IF "screening" \in flags THEN {"screening"} ELSE {})
  \cup (IF "diagnostic_workup" \in flags THEN {"diagnosis"} ELSE {})
  \cup (IF \/ "regimen_selection" \in flags
           \/ "regimen_modification" \in flags
           \/ "toxicity_management" \in flags
           \/ "monitoring_schedule" \in flags
           \/ "treatment_failure_or_reversion" \in flags
        THEN {"treatment"} ELSE {})

\* The keyword lists of the fallback, by scope.
scopeKeywords(scope) ==
  CASE scope = "prevention" ->
         {"prevention", "tb infection", "latent tb", "tpt",
          "preventive treatment", "contact management", "household contacts"}
    [] scope = "screening" ->
         {"screening", "systematic screening", "triage", "ai-assisted",
          "cxr screening", "screen for tb"}
    [] scope = "diagnosis" ->
         {"diagnos", "algorithm", "cxr", "x-ray", "radiograph", "xpert",
          "naat", "truenat", "lamp", "wrd", "wrds", "lpa", "smear", "ultra"}
    [] scope = "treatment" ->
         {"treatment", "regimen", "therapy", "dosing", "dose", "4-month",
          "6-month", "bpal", "bdq", "pretomanid", "linezolid", "dr-tb",
          "drug-resistant"}

\* Step 2 of inferScopeFromQuestion: the keyword fallback on the lower-cased
\* question.
keywordScope(q) ==
  LET preventionScore == keywordScore(q, scopeKeywords("prevention"))
      screeningScore == keywordScore(q, scopeKeywords("screening"))
      diagnosisScore == keywordScore(q, scopeKeywords("diagnosis"))
      treatmentScore == keywordScore(q, scopeKeywords("treatment"))
  IN IF q = "" THEN NoScope
     ELSE IF preventionScore >= 2 \/ includes(q, "module 1") THEN "prevention"
     ELSE IF screeningScore >= 2
             \/ (screeningScore # 0 /\ includes(q, "module 2"))
          THEN "screening"
     ELSE IF diagnosisScore >= 2
             \/ (diagnosisScore # 0 /\ includes(q, "module 3"))
          THEN "diagnosis"
     ELSE IF treatmentScore >= 2 \/ includes(q, "module 4") THEN "treatment"
     ELSE NoScope

\* Scope inference that lets the population flags become a scope.
inferScopeWithPopulation(question, intentFlags) ==
  LET byFlags == FirstByPriority(topicPriority, topicCandidates(intentFlags))
  IN IF byFlags # NoScope THEN byFlags
     ELSE IF "special_populations" \in intentFlags THEN "pediatrics"
     ELSE IF "comorbidities" \in intentFlags THEN "comorbidities"
     ELSE keywordScope(toLowerCase(question))

\* inferScopeFromQuestion(question, intentFlags); question is a string
\* (the handler passes undefined only when it is about to answer 400, and
\* (question || "") makes that the empty string).
inferScopeFromQuestion(question, intentFlags) ==
  LET byFlags == FirstByPriority(topicPriority, topicCandidates(intentFlags))
  IN IF byFlags # NoScope THEN byFlags
     ELSE keywordScope(toLowerCase(question))

-----------------------------------------------------------------------------
(* Numbers *)

\* The length of a unit vector in the fixed-point representation: the
\* component 1.0 is VecUnit.
VecUnit == 5 * 5

\* The score 1.0 in the fixed-point representation: a dot product of two unit
\* vectors (VecUnit * VecUnit) with six further decimal digits.
ScoreUnit == VecUnit * VecUnit * 1000000

\* x * p / 100 rounded down, computed without leaving 32 bits.
MulPct(x, p) == (x \div 100) * p + ((x % 100) * p) \div 100

\* Math.sqrt for the squared norms the model's vectors have, rounded down.
ISqrt(n) == CHOOSE r \in 0..n : r * r <= n /\ (r + 1) * (r + 1) > n

RECURSIVE SumSeq(_)
SumSeq(s) == IF s = <<>> THEN 0 ELSE Head(s) + SumSeq(Tail(s))

\* normalize(vec): a raw vector of integers to a unit vector in units of
\* 1/VecUnit; the zero vector (norm 0) maps to zeros.
normalize(vec) ==
  LET norm == ISqrt(SumSeq([i \in 1..Len(vec) |-> vec[i] * vec[i]]))
  IN IF norm = 0 THEN [i \in 1..Len(vec) |-> 0]
     ELSE [i \in 1..Len(vec) |-> (vec[i] * VecUnit) \div norm]

\* cosineSim(a, b): the dot product over the shared prefix, as a score.
cosineSim(a, b) ==
  LET len == Min(Len(a), Len(b))
  IN SumSeq([i \in 1..len |-> a[i] * b[i]]) * (ScoreUnit \div (VecUnit * VecUnit))

-----------------------------------------------------------------------------
(* Chunks, corpora and the files on disk *)

\* A line of chunks.jsonl.  guideline_title, year and attachment_id are
\* copied to the response and read nowhere else; they are left out.
Chunk(id, doc, section, scope, ctype, text) ==
  [chunk_id |-> id, doc_id |-> doc, section_path |-> section, scope |-> scope,
   content_type |-> ctype, text |-> text, table_subtype |-> "",
   attachment_path |-> "", caption |-> ""]

TableChunk(id, doc, section, scope, subtype, attachment) ==
  [chunk_id |-> id, doc_id |-> doc, section_path |-> section, scope |-> scope,
   content_type |-> "table", text |-> "", table_subtype |-> subtype,
   attachment_path |-> attachment, caption |-> ""]

M4Doc == "WHO_Module4_Treatment_2025"

M5Doc == "WHO_Module5_Pediatrics_2022"

ChM4Dr ==
  Chunk("m4-dr-01", M4Doc,
        "Chapter 2 : Drug-resistant TB treatment | 2.1 BPaLM regimen",
        "treatment", "text", "BPaLM for MDR/RR-TB")

ChM4Ds ==
  Chunk("m4-ds-01", M4Doc,
        "Chapter 1 : Drug-susceptible TB treatment | 1.2 Four-month regimen",
        "", "text", "HPMZ for DS-TB")

ChM3Dx ==
  Chunk("m3-dx-01", "WHO_Module3_Diagnosis_2024", "3.1 Xpert MTB/RIF Ultra",
        "diagnosis", "text", "Initial test")

ChM1Tpt ==
  Chunk("m1-tpt-01", "WHO_Module1_TPT_2024",
        "TB preventive treatment | 3.3.5 Regimens", "prevention", "text",
        "3HP or 1HP")

ChM5Tab ==
  TableChunk("m5-tab-01", M5Doc,
             "5.2. Treatment of drug-susceptible TB in children", "", "",
             "tables/m5/Table_1.csv")

ChM4Tab ==
  TableChunk("m4-tab-01", M4Doc,
             "Chapter 2 : Drug-resistant TB treatment | 2.1 BPaLM regimen",
             "treatment", "", "tables/m4/Table_2.csv")

\* Records whose manifest line has no chunk_id.
ChNoId1 == Chunk("", M4Doc, "Annex 1", "treatment", "text", "Annex text")

ChNoId2 == Chunk("", "WHO_Module2_Screening_2021", "Systematic screening",
                 "screening", "text", "CXR screening")

\* A second record carrying the chunk_id of ChM4Dr.
ChDup ==
  Chunk("m4-dr-01", M4Doc,
        "Chapter 2 : Drug-resistant TB treatment | 2.2 Longer regimens",
        "treatment", "text", "Longer regimens")

\* A plain prose record, one per number.
Filler(i) ==
  Chunk("gen-" \o ToString(i), "WHO_Handbook_2023",
        "Annex " \o ToString(i), "", "text", "General text")

\* A point of the circle of radius 25 (or the origin), one per number.
RawVec(i) ==
  CASE i % 8 = 0 -> <<25, 0>>
    [] i % 8 = 1 -> <<24, 7>>
    [] i % 8 = 2 -> <<20, 15>>
    [] i % 8 = 3 -> <<15, 20>>
    [] i % 8 = 4 -> <<7, 24>>
    [] i % 8 = 5 -> <<0, 25>>
    [] i % 8 = 6 -> <<-15, 20>>
    [] OTHER -> <<0, 0>>

\* A row of an attachment CSV as Papa.parse (header: true) returns it: the
\* row_index field and the fields Column A, Column B, ... in file order.
\* A file without a row_index column gives row_index "undefined", which is
\* what String(r.row_index) is then.
RawRow(rowIndex, cells) == [row_index |-> rowIndex, cells |-> cells]

\* Attachment tables.
TabWeightBand ==
  <<RawRow("1", <<"Weight band", "Isoniazid (mg)", "Rifampicin (mg)">>),
    RawRow("2", <<"4-7 kg", "50", "75">>),
    RawRow("3", <<"8-11 kg", "100", "150">>)>>

TabMedByBand ==
  <<RawRow("1", <<"Medicine", "4-7 kg", "8-11 kg">>),
    RawRow("2", <<"Isoniazid", "50 mg", "100 mg">>),
    RawRow("3", <<"Rifampicin", "75 mg", "150 mg">>)>>

TabDoseNoBand ==
  <<RawRow("1", <<"Medicine", "Dose">>),
    RawRow("2", <<"Isoniazid", "10 mg daily">>),
    RawRow("3", <<"Rifampicin", "15 mg daily">>)>>

TabPopulation ==
  <<RawRow("1", <<"Population", "Notes">>),
    RawRow("2", <<"Adults", "6 months">>),
    RawRow("3", <<"Children", "4 months">>)>>

TabBlankCells ==
  <<RawRow("1", <<"Population", "Notes">>),
    RawRow("2", <<"", " ">>),
    RawRow("3", <<"", "">>)>>

\* A weight-band table none of whose rows names a medicine.
TabBlankBands ==
  <<RawRow("1", <<"Medicine", "4-7 kg">>),
    RawRow("2", <<"", "">>),
    RawRow("3", <<" ", "">>)>>

TabRegimen ==
  <<RawRow("1", <<"Regimen", "Drugs", "Duration">>),
    RawRow("2", <<"BPaLM", "Bdq, Pa, Lzd, Mfx", "6 months">>),
    RawRow("3", <<"", "", "">>)>>

TabDecision ==
  <<RawRow("1", <<"Criteria", "Recommendation">>),
    RawRow("2", <<"Xpert positive", "Start treatment">>)>>

TabTimeline ==
  <<RawRow("1", <<"Test", "Baseline", "Month 2">>),
    RawRow("2", <<"Culture", "Yes", "Yes">>)>>

TabInteraction ==
  <<RawRow("1", <<"Drug 1", "Drug 2", "Effect">>),
    RawRow("2", <<"Rifampicin", "Dolutegravir", "Lower level">>)>>

TabToxicity ==
  <<RawRow("1", <<"Grade", "Description", "Management">>),
    RawRow("2", <<"3", "ALT over 5x ULN", "Stop treatment">>)>>

TabHeaderOnly == <<RawRow("1", <<"Medicine", "Dose">>)>>

\* A file with no row_index column.
TabNoRowIndex ==
  <<RawRow("undefined", <<"Medicine", "Dose">>),
    RawRow("undefined", <<"Isoniazid", "10 mg daily">>)>>

\* An attachment file under public/rag: readable or not (missing, or not
\* permitted), and the rows Papa.parse returns for its content.  A file
\* Papa.parse cannot make rows of is readable with no rows: parse errors are
\* logged and parsed.data is returned as it is.
AttachmentFile(readable, rows) == [readable |-> readable, rows |-> rows]

MissingFile == AttachmentFile(FALSE, <<>>)

\* The attachment files of a disk image: manifest path |-> file; a path
\* outside the domain is a file that is not there.
NoAttachments == [p \in {} |-> MissingFile]

Attachments ==
  [p \in {"tables/m5/Table_1.csv", "tables/m4/Table_2.csv",
          "tables/m4/Table_4.csv"} |->
     CASE p = "tables/m5/Table_1.csv" -> AttachmentFile(TRUE, TabMedByBand)
       [] p = "tables/m4/Table_2.csv" -> AttachmentFile(TRUE, TabRegimen)
       [] OTHER -> AttachmentFile(TRUE, <<>>)]

\* The state of public/rag: chunks.jsonl, embeddings.json, embeddings.npy.
\*   chunksFile: "ok" (every line parses), "unparseable" or "missing"
\*   embJson:    "ok", "unparseable", "lfs" (a Git LFS pointer) or "absent"
\*   embNpy:     "ok", "badshape" or "absent"
DiskImage(chunksFile, chunks, embJson, jsonVectors, embNpy, npyVectors) ==
  [chunksFile |-> chunksFile, chunks |-> chunks,
   embJson |-> embJson, jsonVectors |-> jsonVectors,
   embNpy |-> embNpy, npyVectors |-> npyVectors, tables |-> NoAttachments]

JsonCorpus(chunks, vectors) ==
  DiskImage("ok", chunks, "ok", vectors, "absent", <<>>)

VecsA == <<<<6, 8>>, <<4, 3>>, <<0, 5>>, <<5, 0>>, <<3, 4>>, <<-3, 4>>>>

\* A consistent corpus of prose and tables over several modules.
DiskMixed ==
  JsonCorpus(<<ChM4Dr, ChM4Ds, ChM3Dx, ChM1Tpt, ChM5Tab, ChM4Tab>>, VecsA)

\* The same corpus served from embeddings.npy behind an LFS pointer.
DiskMixedNpy ==
  DiskImage("ok", <<ChM4Dr, ChM4Ds, ChM3Dx, ChM1Tpt, ChM5Tab, ChM4Tab>>,
            "lfs", <<>>, "ok", VecsA)

\* Every record lacks a chunk_id.
DiskNoIds == JsonCorpus(<<ChNoId1, ChNoId2>>, <<<<3, 4>>, <<4, 3>>>>)

\* Shared and missing chunk_ids among records that have one.
DiskDupIds ==
  JsonCorpus(<<ChM4Dr, ChDup, ChNoId1, ChM3Dx>>,
             <<<<3, 4>>, <<4, 3>>, <<5, 0>>, <<0, 5>>>>)

\* More chunks than embeddings.
DiskMoreChunks ==
  JsonCorpus(<<ChM4Dr, ChM3Dx, ChM1Tpt>>, <<<<3, 4>>, <<4, 3>>>>)

\* More embeddings than chunks.
DiskMoreEmbeddings ==
  JsonCorpus(<<ChM4Dr, ChM3Dx>>, <<<<3, 4>>, <<4, 3>>, <<5, 0>>>>)

\* How many records the large corpus holds: above the cap of 8 results.
LargeCorpusSize == 10

DiskLarge ==
  JsonCorpus([i \in 1..LargeCorpusSize |-> Filler(i)],
             [i \in 1..LargeCorpusSize |-> RawVec(i)])

\* A pediatric prose record on MDR/RR-TB treatment, one per number.
PedsMdr(i) ==
  Chunk("m5-mdr-" \o ToString(i), M5Doc,
        "5.3. Treatment of MDR/RR-TB in children | Part " \o ToString(i),
        "treatment", "text", "Regimens for children with MDR/RR-TB")

\* A treatment corpus whose one Module 4 drug-resistant chapter record is
\* less similar to the usual query than its many pediatric records.
DiskUnderRanked ==
  JsonCorpus([i \in 1..LargeCorpusSize |->
                IF i < LargeCorpusSize THEN PedsMdr(i) ELSE ChM4Dr],
             [i \in 1..LargeCorpusSize |->
                IF i < LargeCorpusSize THEN <<3, 4>> ELSE <<4, 3>>])

\* A prose record of the Module 4 drug-resistant chapter, one per number.
M4DrPart(i) ==
  Chunk("m4-dr-p" \o ToString(i), M4Doc,
        "Chapter 2 : Drug-resistant TB treatment | Part " \o ToString(i),
        "treatment", "text", "Regimens for MDR/RR-TB")

\* A prose record of the Module 1 TPT guideline, one per number.
M1TptPart(i) ==
  Chunk("m1-tpt-p" \o ToString(i), "WHO_Module1_TPT_2024",
        "TB preventive treatment | Part " \o ToString(i), "prevention", "text",
        "TPT regimens")

\* A pediatric prose record on contact investigation, one per number.
PedsContact(i) ==
  Chunk("m5-contact-" \o ToString(i), M5Doc,
        "5.1. Contact investigation | Part " \o ToString(i), "prevention",
        "text", "Household contacts")

\* Table records whose attachment is not there (the first with a
\* table_subtype of its own in the manifest), or holds nothing that parses.
ChM4TabLost ==
  TableChunk("m4-tab-03", M4Doc,
             "Chapter 2 : Drug-resistant TB treatment | 2.2 Longer regimens",
             "treatment", "regimen", "tables/m4/Table_3.csv")

ChM5TabLost ==
  TableChunk("m5-tab-09", M5Doc,
             "5.2. Treatment of drug-susceptible TB in children", "", "",
             "tables/m5/Table_9.csv")

ChM4TabGarbled ==
  TableChunk("m4-tab-04", M4Doc,
             "Chapter 2 : Drug-resistant TB treatment | 2.3 Monitoring",
             "treatment", "", "tables/m4/Table_4.csv")

\* A corpus with its attachment files, some of them missing or garbled;
\* the other corpora have no attachment file at all.
DiskLostTables ==
  [JsonCorpus(<<ChM4Dr, ChM4TabLost, ChM5TabLost, ChM4TabGarbled, ChM4Tab>>,
              <<<<6, 8>>, <<4, 3>>, <<0, 5>>, <<5, 0>>, <<3, 4>>>>)
     EXCEPT !.tables = Attachments]

\* A small second corpus, to tell one load from another.
DiskSmall == JsonCorpus(<<ChM3Dx, ChM1Tpt>>, <<<<0, 5>>, <<3, 4>>>>)

\* chunks.jsonl exists and is empty.
DiskEmptyChunks == JsonCorpus(<<>>, <<<<3, 4>>>>)

\* embeddings.json holds [].
DiskEmptyEmbeddings == JsonCorpus(<<ChM4Dr>>, <<>>)

DiskNoChunksFile ==
  DiskImage("missing", <<>>, "ok", <<<<3, 4>>>>, "absent", <<>>)

DiskBadChunkLine ==
  DiskImage("unparseable", <<>>, "ok", <<<<3, 4>>>>, "absent", <<>>)

DiskNoEmbeddings ==
  DiskImage("ok", <<ChM4Dr>>, "absent", <<>>, "absent", <<>>)

DiskBadEmbeddings ==
  DiskImage("ok", <<ChM4Dr>>, "unparseable", <<>>, "badshape", <<>>)

\* loadEmbeddings(ragDir): [ok, vectors].
loadEmbeddings(d) ==
  IF d.embJson = "ok" THEN [ok |-> TRUE, vectors |-> d.jsonVectors]
  ELSE IF d.embNpy = "ok" THEN [ok |-> TRUE, vectors |-> d.npyVectors]
  ELSE [ok |-> FALSE, vectors |-> <<>>]

\* The part of loadRagStore that runs before its await: chunks.jsonl is read
\* and parsed, loadEmbeddings is called and reads its file.  [ok, chunks,
\* vectors]; ok is FALSE when a read or a parse throws.
readCorpus(d) ==
  IF d.chunksFile # "ok" THEN [ok |-> FALSE, chunks |-> <<>>, vectors |-> <<>>]
  ELSE LET e == loadEmbeddings(d)
       IN [ok |-> e.ok, chunks |-> d.chunks, vectors |-> e.vectors]

\* No store: the initial value null of RAG_STORE.
NoStore == [id |-> 0, chunks |-> <<>>, embeddings |-> <<>>]

\* The part of loadRagStore after its await: the object assigned to
\* RAG_STORE.  id stands for the object's identity: the number of the read
\* that produced it.
buildStore(readNo, chunks, vectors) ==
  [id |-> readNo, chunks |-> chunks,
   embeddings |-> [i \in 1..Len(vectors) |-> normalize(vectors[i])]]

-----------------------------------------------------------------------------
(* Scope filter, chunk classification, section keys *)

\* chunks[i] || {} for a JavaScript (0-based) index i.
EmptyChunk == Chunk("", "", "", "", "", "")

HasChunk(chunks, i) == (i + 1) \in DOMAIN chunks

ChunkAt(chunks, i) == IF HasChunk(chunks, i) THEN chunks[i + 1] ELSE EmptyChunk

\* Array.prototype.filter on a sequence: kept is the set of the positions
\* whose elements the callback keeps.
FilterSeq(s, kept) ==
  [k \in 1..Cardinality(kept) |->
     s[CHOOSE i \in kept : Cardinality({j \in kept : j <= i}) = k]]

\* The switch of filterIndicesByScope for a chunk without a scope tag.
scopeHeuristic(s, docId, section) ==
  CASE s = "prevention" ->
         \/ includes(section, "prevention")
         \/ includes(section, "tb infection")
         \/ includes(section, "tpt")
         \/ includes(section, "preventive treatment")
         \/ includes(section, "contact management")
         \/ includes(section, "latent tb")
         \/ includes(docId, "module1")
    [] s = "screening" ->
         \/ includes(section, "screening")
         \/ includes(section, "systematic screening")
         \/ includes(section, "triage")
         \/ includes(section, "ai-assisted")
         \/ includes(section, "cxr screening")
         \/ includes(docId, "module2")
    [] s = "diagnosis" ->
         \/ includes(docId, "diag")
         \/ includes(docId, "module3")
         \/ includes(section, "diagnos")
         \/ includes(section, "xpert")
         \/ includes(section, "cxr")
         \/ includes(section, "smear")
         \/ includes(section, "naat")
    [] s = "treatment" ->
         \/ includes(docId, "treat")
         \/ includes(docId, "module4")
         \/ includes(section, "treatment")
         \/ includes(section, "regimen")
         \/ includes(section, "drug-resistant tb")
         \/ includes(section, "dr-tb")
         \/ includes(section, "mdr-tb")
         \/ includes(section, "rifampicin-resistant")
    [] s = "pediatrics" ->
         \/ includes(docId, "pediatric")
         \/ includes(docId, "child")
         \/ includes(docId, "module5")
         \/ includes(section, "child")
         \/ includes(section, "children")
         \/ includes(section, "adolescent")
         \/ includes(section, "paediatric")
         \/ includes(section, "pediatric")
    [] s = "comorbidities" ->
         \/ includes(docId, "module6")
         \/ includes(section, "hiv")
         \/ includes(section, "diabetes")
         \/ includes(section, "comorbid")
         \/ includes(section, "substance use")
         \/ includes(section, "alcohol use")
         \/ includes(section, "mental health")
         \/ includes(section, "hepatitis")
         \/ includes(section, "hcv")
    [] OTHER -> TRUE

\* The predicate filterIndicesByScope applies to one index.
chunkMatchesScope(c, scope) ==
  LET s == toLowerCase(scope)
      chunkScope == toLowerCase(c.scope)
  IN IF chunkScope # "" THEN chunkScope = s
     ELSE scopeHeuristic(s, toLowerCase(c.doc_id), toLowerCase(c.section_path))

filterIndicesByScope(indices, chunks, scope) ==
  IF scope = NoScope THEN indices
  ELSE FilterSeq(indices,
                 {k \in 1..Len(indices) :
                    chunkMatchesScope(ChunkAt(chunks, indices[k]), scope)})

isDrugSusceptibleChunk(c) ==
  LET doc == toLowerCase(c.doc_id)
      section == toLowerCase(c.section_path)
      scope == toLowerCase(c.scope)
      text == toLowerCase(c.text)
      dsSignals == {"drug - susceptible", "drug-susceptible",
                    "drug susceptible", "ds-tb", "ds tb"}
      hasSignal(s) == \E sig \in dsSignals : includes(s, sig)
  IN \/ hasSignal(scope)
     \/ hasSignal(section)
     \/ hasSignal(text)
     \/ includes(doc, "module4") /\ includes(doc, "treat")
          /\ includes(section, "chapter 1")

IsDigit(c) == c \in {"0", "1", "2", "3", "4", "5", "6", "7", "8", "9"}

\* \w of a regular expression.
IsWordChar(c) ==
  \/ IsDigit(c)
  \/ c = "_"
  \/ c \in DOMAIN UpperToLower
  \/ c \in {UpperToLower[u] : u \in DOMAIN UpperToLower}

CharAt(s, i) == SubSeq(s, i, i)

\* String.prototype.trim, for the white space the model's strings hold.
RECURSIVE Trim(_)
Trim(s) ==
  IF s = "" THEN s
  ELSE IF CharAt(s, 1) = " " THEN Trim(SubSeq(s, 2, Len(s)))
  ELSE IF CharAt(s, Len(s)) = " " THEN Trim(SubSeq(s, 1, Len(s) - 1))
  ELSE s

\* s.split("|") from position i on, cur being the segment under way.
RECURSIVE SplitFrom(_, _, _)
SplitFrom(s, i, cur) ==
  IF i > Len(s) THEN <<cur>>
  ELSE IF CharAt(s, i) = "|" THEN <<cur>> \o SplitFrom(s, i + 1, "")
  ELSE SplitFrom(s, i + 1, cur \o CharAt(s, i))

\* The end of the run of digits that starts at i.
RECURSIVE RunEnd(_, _)
RunEnd(s, i) ==
  IF i < Len(s) /\ IsDigit(CharAt(s, i + 1)) THEN RunEnd(s, i + 1) ELSE i

\* /\b\d+(?:\.\d+)*\b/ matched greedily from a digit run ending at e: the
\* furthest end of a chain of dotted runs that a word boundary follows, or 0.
RECURSIVE NumberEnd(_, _)
NumberEnd(s, e) ==
  LET extends == e + 2 <= Len(s) /\ CharAt(s, e + 1) = "."
                   /\ IsDigit(CharAt(s, e + 2))
      further == IF extends THEN NumberEnd(s, RunEnd(s, e + 2)) ELSE 0
  IN IF further # 0 THEN further
     ELSE IF e = Len(s) \/ ~IsWordChar(CharAt(s, e + 1)) THEN e
     ELSE 0

\* s.match(/\b\d+(?:\.\d+)*\b/g) as a set, scanning from position i.
RECURSIVE NumMatchesFrom(_, _)
NumMatchesFrom(s, i) ==
  IF i > Len(s) THEN {}
  ELSE IF IsDigit(CharAt(s, i)) /\ (i = 1 \/ ~IsWordChar(CharAt(s, i - 1)))
       THEN LET e == NumberEnd(s, RunEnd(s, i))
            IN IF e # 0 THEN {SubSeq(s, i, e)} \cup NumMatchesFrom(s, e + 1)
               ELSE NumMatchesFrom(s, i + 1)
  ELSE NumMatchesFrom(s, i + 1)

\* extractSectionKeys: the keys as a set (the code builds a Set).
extractSectionKeys(sectionPath) ==
  IF sectionPath = "" THEN {}
  ELSE LET s == toLowerCase(sectionPath)
           parts == SplitFrom(s, 1, "")
           segments == {Trim(parts[i]) : i \in 1..Len(parts)} \ {""}
       IN {Trim(s)} \cup segments \cup NumMatchesFrom(s, 1)

-----------------------------------------------------------------------------
(* Ranking: channels, boosts, merge, guarantee, dedup *)

AuthorityBoostPct == 103

DsPenaltyPct == 60

NeighborFloorPct == 98

StalePenaltyPct == 97

AnchorLimit == 10

TEXT_LIMIT == 20

TABLE_LIMIT == 8

GuaranteeQuota == 2

DefaultTopK == 8

MaxTopK == 8

\* A scored candidate { index, score }.
Entry(index, score) == [index |-> index, score |-> score]

\* Where Array.prototype.sort((a, b) => b.score - a.score), which is stable,
\* puts e in a list already sorted: after every entry that scores as high.
InsertDesc(sorted, e) ==
  LET k == Cardinality({i \in 1..Len(sorted) : sorted[i].score >= e.score})
  IN SubSeq(sorted, 1, k) \o <<e>> \o SubSeq(sorted, k + 1, Len(sorted))

RECURSIVE SortDescFrom(_, _, _)
SortDescFrom(s, i, acc) ==
  IF i > Len(s) THEN acc ELSE SortDescFrom(s, i + 1, InsertDesc(acc, s[i]))

\* list.sort((a, b) => b.score - a.score)
SortDesc(s) == SortDescFrom(s, 1, <<>>)

\* The flags and scope tests the handler computes once per query.
QueryCtx(scope, intentFlags) ==
  [isDiagnosisScope |-> scope = "diagnosis",
   isTreatmentScope |-> scope = "treatment",
   isPreventionScope |-> scope = "prevention",
   isPediatric |-> "special_populations" \in intentFlags,
   hasDrugResistanceIntent |-> "drug_resistance" \in intentFlags,
   hasTptIntent |-> "tpt" \in intentFlags,
   hasDrTptIntent |-> "dr_tpt" \in intentFlags]

\* The 1.03 boosts of one pass of the module-aware boost loops over an
\* entry: the loop over scoredText (isTable FALSE) and the loop over
\* scoredTables (isTable TRUE).
authorityBoost(entry, c, ctx, isTable) ==
  LET doc == toLowerCase(c.doc_id)
      section == toLowerCase(c.section_path)
      s0 == entry.score
      s1 == IF ctx.isTreatmentScope /\ includes(doc, "module4")
                /\ includes(doc, "treatment") /\ includes(doc, "2025")
            THEN MulPct(s0, AuthorityBoostPct) ELSE s0
      s2 == IF ctx.isTreatmentScope /\ ctx.isPediatric
                /\ ~ctx.hasDrugResistanceIntent
                /\ includes(doc, "module5") /\ includes(doc, "pediatr")
                /\ (\/ includes(section, "5.2.")
                    \/ (~isTable /\ includes(section,
                          "treatment of drug-susceptible tb in children")))
            THEN MulPct(s1, AuthorityBoostPct) ELSE s1
      s3 == IF ctx.isDiagnosisScope /\ ctx.isPediatric
                /\ includes(doc, "module3")
                /\ (includes(doc, "diag") \/ includes(section, "diagnosis"))
            THEN MulPct(s2, AuthorityBoostPct) ELSE s2
      s4 == IF ctx.isPreventionScope /\ includes(doc, "module1")
                /\ includes(doc, "tpt") /\ includes(doc, "2024")
            THEN MulPct(s3, AuthorityBoostPct) ELSE s3
  IN Entry(entry.index, s4)

\* A drug-susceptible penalty that does not look at the query's flags.
dsPenaltyUnguarded(entry, c, ctx) ==
  IF isDrugSusceptibleChunk(c)
  THEN Entry(entry.index, MulPct(entry.score, DsPenaltyPct))
  ELSE entry

\* The last statement of both loop bodies: the drug-susceptible penalty.
dsPenalty(entry, c, ctx) ==
  IF ctx.hasDrugResistanceIntent /\ isDrugSusceptibleChunk(c)
  THEN Entry(entry.index, MulPct(entry.score, DsPenaltyPct))
  ELSE entry

\* One pass of a module-aware boost loop over an entry.
moduleBoost(entry, c, ctx, isTable) ==
  dsPenalty(authorityBoost(entry, c, ctx, isTable), c, ctx)

\* An anchor is a current-edition adult drug-resistant-treatment chunk.
isModule4DrChunk(c) ==
  LET doc == toLowerCase(c.doc_id)
      section == toLowerCase(c.section_path)
  IN includes(doc, "module4") /\ includes(doc, "treatment")
       /\ includes(section, "chapter 2 : drug-resistant tb treatment")

\* An anchor is a Module 1 TPT chunk.
isModule1TptAnchor(c) ==
  LET doc == toLowerCase(c.doc_id)
      section == toLowerCase(c.section_path)
  IN includes(doc, "module1") /\ includes(doc, "tpt")
       /\ includes(section, "tb preventive treatment")

\* The filter of the Module 1 TPT guarantee.
isModule1TptCandidate(c) ==
  LET doc == toLowerCase(c.doc_id)
      section == toLowerCase(c.section_path)
  IN includes(doc, "module1") /\ includes(doc, "tpt") /\ includes(doc, "2024")
       /\ (\/ includes(section, "tb preventive treatment")
           \/ includes(section, "tb infection"))

\* The section-proximity loop over one table entry.
neighborBoost(entry, c, anchors, chunks, maxTextScore) ==
  LET tableKeys == extractSectionKeys(c.section_path)
      isNeighbor ==
        \E a \in 1..Len(anchors) :
          LET ac == ChunkAt(chunks, anchors[a].index)
          IN /\ ac.doc_id # ""
             /\ ac.doc_id = c.doc_id
             /\ extractSectionKeys(ac.section_path) \cap tableKeys # {}
  IN IF c.doc_id # "" /\ isNeighbor
     THEN Entry(entry.index,
                Max(entry.score, MulPct(maxTextScore, NeighborFloorPct)))
     ELSE entry

\* The loop bodies of the two stale-table penalties.
isPedsRegimenOrDecisionTable(c) ==
  LET doc == toLowerCase(c.doc_id)
      subtype == toLowerCase(c.table_subtype)
  IN /\ includes(doc, "module5") /\ includes(doc, "pediatr")
     /\ toLowerCase(c.content_type) = "table"
     /\ subtype \in {"regimen", "decision"}

isLegacyTptSection(c) ==
  LET section == toLowerCase(c.section_path)
  IN \/ includes(section, "3.3.5")
     \/ includes(section, "3.3.6")
     \/ includes(section, "preventive treatment")

\* A guarantee loop without its quota: every candidate that combined does
\* not hold yet is pushed.
RECURSIVE pushMissingNoQuota(_, _, _, _)
pushMissingNoQuota(combined, candidates, i, needed) ==
  IF i > Len(candidates) THEN combined
  ELSE IF \E k \in 1..Len(combined) : combined[k].index = candidates[i].index
       THEN pushMissingNoQuota(combined, candidates, i + 1, needed)
  ELSE pushMissingNoQuota(Append(combined, candidates[i]), candidates, i + 1,
                          needed)

\* The guarantee loop: up to GuaranteeQuota candidates, in the order of
\* candidates, that combined does not hold yet are pushed onto it.
RECURSIVE pushMissing(_, _, _, _)
pushMissing(combined, candidates, i, needed) ==
  IF i > Len(candidates) \/ needed <= 0 THEN combined
  ELSE IF \E k \in 1..Len(combined) : combined[k].index = candidates[i].index
       THEN pushMissing(combined, candidates, i + 1, needed)
  ELSE pushMissing(Append(combined, candidates[i]), candidates, i + 1,
                   needed - 1)

\* The dedup loop: an entry is kept when its chunk has a chunk_id that no
\* entry kept before it has.
RECURSIVE dedupFrom(_, _, _, _)
dedupFrom(combined, chunks, i, kept) ==
  IF i > Len(combined) THEN kept
  ELSE LET id == ChunkAt(chunks, combined[i].index).chunk_id
       IN IF id = ""
             \/ \E k \in 1..Len(kept) :
                  ChunkAt(chunks, kept[k].index).chunk_id = id
          THEN dedupFrom(combined, chunks, i + 1, kept)
          ELSE dedupFrom(combined, chunks, i + 1, Append(kept, combined[i]))

dedup(combined, chunks) == dedupFrom(combined, chunks, 1, <<>>)

\* The scope filter's result kept as it is, empty or not: the handler
\* without its fallback line.
keepScopedIndices(scopedIndices, fullIndices) == scopedIndices

\* if (!scopedIndices.length) scopedIndices = fullIndices
fallbackToFull(scopedIndices, fullIndices) ==
  IF scopedIndices = <<>> THEN fullIndices ELSE scopedIndices

\* finalTopK = typeof body.top_k === "number" ? body.top_k : 8, then
\* Math.max(1, Math.min(finalTopK, 8)).
clampTopK(top_k) ==
  LET finalTopK == IF top_k.t = "number" THEN top_k.v ELSE DefaultTopK
  IN Max(1, Min(finalTopK, MaxTopK))

\* The handler from the computation of fullIndices to the slice that gives
\* top.  threw is TRUE when chunks[i].content_type is read of an index that
\* has no chunk (a TypeError); nothing after it is computed then.
NoRank ==
  [threw |-> FALSE, scopeMatchCount |-> 0, indices |-> <<>>,
   textIndices |-> <<>>, tableIndices |-> <<>>, scoredText |-> <<>>,
   scoredTables |-> <<>>, hasModule4DrAnchor |-> FALSE,
   hasModule1TptAnchor |-> FALSE, combined |-> <<>>, deduped |-> <<>>,
   top |-> <<>>]

\* const fullIndices = embeddings.map((_, idx) => idx)
fullIndicesOf(embeddings) == [k \in 1..Len(embeddings) |-> k - 1]

\* Scope filtering with its fallback, and the channel split.
selectStage(chunks, embeddings, scope) ==
  LET indices ==
        fallbackToFull(
          filterIndicesByScope(fullIndicesOf(embeddings), chunks, scope),
          fullIndicesOf(embeddings))
      tables == {k \in 1..Len(indices) :
                   toLowerCase(ChunkAt(chunks, indices[k]).content_type) = "table"}
  IN IF \E k \in 1..Len(indices) : ~HasChunk(chunks, indices[k])
     THEN [NoRank EXCEPT !.threw = TRUE, !.indices = indices,
                         !.scopeMatchCount = Len(indices)]
     ELSE [NoRank EXCEPT !.indices = indices,
                         !.scopeMatchCount = Len(indices),
                         !.textIndices =
                            FilterSeq(indices, (1..Len(indices)) \ tables),
                         !.tableIndices = FilterSeq(indices, tables)]

\* indices.map((idx) => ({ index, score })) followed by the sort.
scoreChannel(idxs, qEmbedding, embeddings) ==
  SortDesc([k \in 1..Len(idxs) |->
              Entry(idxs[k], cosineSim(qEmbedding, embeddings[idxs[k] + 1]))])

\* Both channels scored against the query embedding.
scoreStage(R, qEmbedding, embeddings) ==
  IF R.threw THEN R
  ELSE [R EXCEPT !.scoredText = scoreChannel(R.textIndices, qEmbedding, embeddings),
                 !.scoredTables = scoreChannel(R.tableIndices, qEmbedding, embeddings)]

\* One boost loop over a channel, then the sort that follows the loops.
boostChannel(scored, chunks, ctx, isTable) ==
  SortDesc([k \in 1..Len(scored) |->
              moduleBoost(scored[k], ChunkAt(chunks, scored[k].index), ctx, isTable)])

boostStage(R, chunks, ctx) ==
  IF R.threw THEN R
  ELSE [R EXCEPT !.scoredText = boostChannel(R.scoredText, chunks, ctx, FALSE),
                 !.scoredTables = boostChannel(R.scoredTables, chunks, ctx, TRUE)]

\* Every prose candidate taken as an anchor.
anchorsUnlimited(scoredText) == scoredText

\* const anchors = scoredText.slice(0, anchorCount)
anchorsOf(scoredText) == SubSeq(scoredText, 1, Min(AnchorLimit, Len(scoredText)))

\* The chunks of the anchors that have a doc_id (if (!a.doc_id) continue).
anchorChunks(scoredText, chunks) ==
  {ac \in {ChunkAt(chunks, scoredText[a].index) :
             a \in 1..Min(AnchorLimit, Len(scoredText))} : ac.doc_id # ""}

\* Anchor detection and the section-proximity boost of the tables.
neighborStage(R, chunks) ==
  IF R.threw THEN R
  ELSE [R EXCEPT
          !.hasModule4DrAnchor =
             \E ac \in anchorChunks(R.scoredText, chunks) : isModule4DrChunk(ac),
          !.hasModule1TptAnchor =
             \E ac \in anchorChunks(R.scoredText, chunks) : isModule1TptAnchor(ac),
          !.scoredTables =
             SortDesc([k \in 1..Len(R.scoredTables) |->
               neighborBoost(R.scoredTables[k],
                             ChunkAt(chunks, R.scoredTables[k].index),
                             anchorsOf(R.scoredText), chunks,
                             IF R.scoredText # <<>> THEN R.scoredText[1].score
                             ELSE ScoreUnit)])]

\* A stale-table penalty loop: the tables at the positions in stale are
\* scaled, and the channel is sorted again.
penalize(scoredTables, stale) ==
  SortDesc([k \in 1..Len(scoredTables) |->
    IF k \in stale
    THEN Entry(scoredTables[k].index,
               MulPct(scoredTables[k].score, StalePenaltyPct))
    ELSE scoredTables[k]])

isStaleTptTable(c) == isPedsRegimenOrDecisionTable(c) /\ isLegacyTptSection(c)

\* The penalty for pediatric MDR regimen tables, under its guard.
staleMdrStage(R, chunks, ctx) ==
  IF ~R.threw /\ ctx.isTreatmentScope /\ ctx.isPediatric
       /\ ctx.hasDrugResistanceIntent /\ R.hasModule4DrAnchor
  THEN [R EXCEPT !.scoredTables =
          penalize(R.scoredTables,
                   {k \in 1..Len(R.scoredTables) :
                      isPedsRegimenOrDecisionTable(
                        ChunkAt(chunks, R.scoredTables[k].index))})]
  ELSE R

\* The penalty for pediatric TPT regimen tables, under its guard.
staleTptStage(R, chunks, ctx) ==
  IF ~R.threw /\ ctx.isPreventionScope /\ ctx.hasTptIntent
       /\ R.hasModule1TptAnchor
  THEN [R EXCEPT !.scoredTables =
          penalize(R.scoredTables,
                   {k \in 1..Len(R.scoredTables) :
                      isStaleTptTable(ChunkAt(chunks, R.scoredTables[k].index))})]
  ELSE R

\* The merge as a plain concatenation, prose first, without the sort.
mergeStageUnsorted(R) ==
  IF R.threw THEN R
  ELSE [R EXCEPT !.combined =
          SubSeq(R.scoredText, 1, Min(TEXT_LIMIT, Len(R.scoredText)))
          \o SubSeq(R.scoredTables, 1, Min(TABLE_LIMIT, Len(R.scoredTables)))]

\* The channel caps and the merge.
mergeStage(R) ==
  IF R.threw THEN R
  ELSE [R EXCEPT !.combined =
          SortDesc(SubSeq(R.scoredText, 1, Min(TEXT_LIMIT, Len(R.scoredText)))
                   \o SubSeq(R.scoredTables, 1,
                             Min(TABLE_LIMIT, Len(R.scoredTables))))]

\* A guarantee block: the candidates are pushed while the quota lasts, then
\* the sort.
guarantee(combined, candidates) ==
  SortDesc(pushMissing(combined, candidates, 1, GuaranteeQuota))

guaranteeDrStage(R, chunks, ctx) ==
  IF ~R.threw /\ ctx.isTreatmentScope /\ ctx.isPediatric
       /\ ctx.hasDrugResistanceIntent
  THEN [R EXCEPT !.combined =
          guarantee(R.combined,
                    FilterSeq(R.scoredText,
                      {k \in 1..Len(R.scoredText) :
                         isModule4DrChunk(ChunkAt(chunks, R.scoredText[k].index))}))]
  ELSE R

guaranteeTptStage(R, chunks, ctx) ==
  IF ~R.threw /\ ctx.isPreventionScope /\ ctx.hasTptIntent
  THEN [R EXCEPT !.combined =
          guarantee(R.combined,
                    FilterSeq(R.scoredText,
                      {k \in 1..Len(R.scoredText) :
                         isModule1TptCandidate(
                           ChunkAt(chunks, R.scoredText[k].index))}))]
  ELSE R

\* const top = deduped.slice(0, finalTopK)
topOf(deduped, finalTopK) == SubSeq(deduped, 1, Min(finalTopK, Len(deduped)))

dedupStage(R, chunks) ==
  IF R.threw THEN R ELSE [R EXCEPT !.deduped = dedup(R.combined, chunks)]

topStage(R, finalTopK) ==
  IF R.threw THEN R ELSE [R EXCEPT !.top = topOf(R.deduped, finalTopK)]

\* The stages in the order the handler runs them.
rankWith(chunks, embeddings, ctx, scope, qEmbedding, finalTopK) ==
  topStage(
    dedupStage(
      guaranteeTptStage(
        guaranteeDrStage(
          mergeStage(
            staleTptStage(
              staleMdrStage(
                neighborStage(
                  boostStage(
                    scoreStage(selectStage(chunks, embeddings, scope),
                               qEmbedding, embeddings),
                    chunks, ctx),
                  chunks),
                chunks, ctx),
              chunks, ctx)),
          chunks, ctx),
        chunks, ctx),
      chunks),
    finalTopK)

rankQuery(chunks, embeddings, scope, intentFlags, qEmbedding, finalTopK) ==
  rankWith(chunks, embeddings, QueryCtx(scope, intentFlags), scope, qEmbedding,
           finalTopK)

-----------------------------------------------------------------------------
(* Table attachments: rows, subtype detection *)

\* array.join(sep)
RECURSIVE Join(_, _)
Join(parts, sep) ==
  IF parts = <<>> THEN ""
  ELSE IF Len(parts) = 1 THEN parts[1]
  ELSE parts[1] \o sep \o Join(Tail(parts), sep)

\* The positions of a sequence, in order, that lie in a set.
RECURSIVE PositionsIn(_, _)
PositionsIn(n, kept) ==
  IF n = 0 THEN <<>>
  ELSE PositionsIn(n - 1, kept) \o (IF n \in kept THEN <<n>> ELSE <<>>)

\* The logical rows of a table: [headers, rows].  headers are the keys of a
\* logical row other than _row_index, in insertion order, and rows[i][j] is
\* the value of row i under headers[j].  A label carried by two columns is
\* one key, placed where the first column is and holding the last column's
\* cell.  With no data row there is no logical row and so no key.
normalizeTableRows(rawRows) ==
  IF rawRows = <<>> THEN [headers |-> <<>>, rows |-> <<>>]
  ELSE
    LET first == {k \in 1..Len(rawRows) : rawRows[k].row_index = "1"}
        headerRow == IF first = {} THEN rawRows[1]
                     ELSE rawRows[CHOOSE k \in first : \A j \in first : k <= j]
        dataRows ==
          FilterSeq(rawRows, {k \in 1..Len(rawRows) :
                                rawRows[k].row_index # headerRow.row_index})
        label(c) == Trim(headerRow.cells[c])
        contentCols == {c \in 1..Len(headerRow.cells) :
                          ~IsBlank(headerRow.cells[c])}
        keyCols == PositionsIn(Len(headerRow.cells),
                     {c \in contentCols :
                        \A b \in contentCols : b < c => label(b) # label(c)})
        valueCol(c) == CHOOSE b \in contentCols :
                         /\ label(b) = label(c)
                         /\ \A a \in contentCols : label(a) = label(c) => a <= b
    IN IF dataRows = <<>> THEN [headers |-> <<>>, rows |-> <<>>]
       ELSE [headers |-> [j \in 1..Len(keyCols) |-> label(keyCols[j])],
             rows |-> [i \in 1..Len(dataRows) |->
                         [j \in 1..Len(keyCols) |->
                            dataRows[i].cells[valueCol(keyCols[j])]]]]

\* /if.*then/
matchesIfThen(s) ==
  \E i \in 1..(Len(s) - 1) :
    /\ SubSeq(s, i, i + 1) = "if"
    /\ includes(SubSeq(s, i + 2, Len(s)), "then")

\* headers.some((h) => pattern.test(h)) for a pattern that is an alternation
\* of literals, over lower-cased headers.  The key _row_index, which the
\* code's header list holds too, matches none of the patterns used.
hasHeader(T, words) ==
  \E j \in 1..Len(T.headers) : has(toLowerCase(T.headers[j]), words)

detectTableSubtype(chunk, T) ==
  LET caption == toLowerCase(chunk.caption)
      section == toLowerCase(chunk.section_path)
  IN IF \/ has(caption, {"dose", "dosage", "dosing", "mg/kg", "mg/ day",
                         "mg per kg", "weight band", "weight-band"})
        \/ hasHeader(T, {"kg", "dose", "weight band", "weight-band"})
     THEN IF \/ has(caption, {"child", "paediatric", "pediatric", "infant",
                              "neonate"})
             \/ includes(section, "child")
          THEN "peds_dosing"
          ELSE "dosing"
     ELSE IF \/ has(caption, {"eligib", "criteria", "decision", "indication",
                              "when to", "option"})
             \/ matchesIfThen(caption)
             \/ hasHeader(T, {"criteria", "recommendation", "option", "action"})
     THEN "decision"
     ELSE IF \/ includes(caption, "regimen")
             \/ /\ hasHeader(T, {"regimen"})
                /\ hasHeader(T, {"drug", "component", "medicine", "combination"})
     THEN "regimen"
     ELSE IF \/ has(caption, {"monitoring", "follow-up", "follow up",
                              "timeline", "schedule"})
             \/ hasHeader(T, {"baseline", "month", "week", "visit", "timepoint"})
     THEN "timeline"
     ELSE IF \/ has(caption, {"interaction", "drug-drug", "drug drug", "ddi",
                              "qt", "contraindication"})
             \/ hasHeader(T, {"interaction", "effect", "recommendation", "ddi"})
     THEN "interaction"
     ELSE IF \/ has(caption, {"toxicity", "adverse event", "side effect",
                              "hepatotox", "neuropathy", "ae management"})
             \/ hasHeader(T, {"grade", "toxicity", "ctcae"})
     THEN "toxicity"
     ELSE "generic"

\* nonEmpty(val), val being a string
nonEmpty(val) == ~IsBlank(val)

\* The positions of the headers that match one of the words (lower-cased).
headersMatching(T, words) ==
  PositionsIn(Len(T.headers),
    {j \in 1..Len(T.headers) : has(toLowerCase(T.headers[j]), words)})

\* headers.find(pattern) || headers[0], as a position
findHeader(T, words) ==
  LET m == headersMatching(T, words) IN IF m = <<>> THEN 1 ELSE m[1]

-----------------------------------------------------------------------------
(* Table renderers *)

\* chunk.caption || fallback
captionOr(chunk, fallback) ==
  IF chunk.caption = "" THEN fallback ELSE chunk.caption

\* `${h}: ${String(v).trim()}`
labelled(T, row, j) == T.headers[j] \o ": " \o Trim(row[j])

\* keys.map(labelled-or-null).filter(Boolean): the labelled non-empty cells
\* of a row under a sequence of header positions.
RECURSIVE labelledCells(_, _, _)
labelledCells(T, row, cols) ==
  IF cols = <<>> THEN <<>>
  ELSE (IF nonEmpty(row[cols[1]]) THEN <<labelled(T, row, cols[1])>>
        ELSE <<>>)
       \o labelledCells(T, row, Tail(cols))

allHeaders(T) == [j \in 1..Len(T.headers) |-> j]

\* The lines pushed while walking the rows: each row gives none or one.
RECURSIVE Flatten(_)
Flatten(seqs) ==
  IF seqs = <<>> THEN <<>> ELSE seqs[1] \o Flatten(Tail(seqs))

noRowsText(caption) == caption \o ". (No rows found.)"

\* !logicalRows.length || !headers.length
noRows(T) == T.rows = <<>> \/ T.headers = <<>>

renderGenericTable(chunk, T) ==
  LET caption == captionOr(chunk, "Table")
      rowLine(i) ==
        "Row " \o ToString(i) \o ": "
        \o Join([j \in 1..Len(T.headers) |->
                   T.headers[j] \o ": " \o T.rows[i][j]], "; ")
  IN IF noRows(T) THEN noRowsText(caption)
     ELSE Join(<<caption \o ". Columns: " \o Join(T.headers, ", ")>>
               \o [i \in 1..Len(T.rows) |-> rowLine(i)], "\n")

MedicineWords == {"medicine", "drug", "product", "regimen", "group", "tb drug"}

WeightBandWords ==
  {"kg", "weight band", "weight-band", "weight range", " to <", "<=", ">="}

\* A dosing renderer that prints its summary header over whatever columns
\* there are, with no fallback when no weight-band column is found.
renderDosingTableNoFallback(chunk, T) ==
  LET caption == captionOr(chunk, "Dosing table")
  IN IF noRows(T) THEN noRowsText(caption)
     ELSE caption \o ". Weight-band dosing summary:"

renderDosingTable(chunk, T) ==
  LET caption == captionOr(chunk, "Dosing table")
      medKey == findHeader(T, MedicineWords)
      weightBandKeys == headersMatching(T, WeightBandWords)
      rowLines(i) ==
        LET row == T.rows[i]
            med == row[medKey]
            bandParts == labelledCells(T, row, weightBandKeys)
            cells == labelledCells(T, row, allHeaders(T))
        IN IF ~nonEmpty(med) THEN <<>>
           ELSE IF bandParts = <<>>
           THEN (IF cells = <<>> THEN <<>>
                 ELSE <<med \o ": " \o Join(cells, "; ")>>)
           ELSE <<med \o ": " \o Join(bandParts, "; ")>>
  IN IF noRows(T) THEN noRowsText(caption)
     ELSE IF weightBandKeys = <<>> THEN renderGenericTable(chunk, T)
     ELSE Join(<<caption \o ". Weight-band dosing summary:">>
               \o Flatten([i \in 1..Len(T.rows) |-> rowLines(i)]), "\n")

renderPedsDosingTable(chunk, T) ==
  LET caption == captionOr(chunk, "Paediatric dosing table")
      medKey == findHeader(T, MedicineWords)
      formKeys == headersMatching(T, {"formulation", "form", "dispersible",
                                      "fdc"})
      weightBandKeys == headersMatching(T, WeightBandWords)
      isWeight(j) == \E k \in 1..Len(weightBandKeys) : weightBandKeys[k] = j
      otherKeys ==
        PositionsIn(Len(T.headers),
          {j \in 1..Len(T.headers) :
             /\ j # medKey
             /\ (formKeys = <<>> \/ j # formKeys[1])
             /\ ~isWeight(j)})
      medIsWeight == isWeight(medKey)
      extraWeightKeys ==
        IF medIsWeight
        THEN FilterSeq(weightBandKeys,
               {k \in 1..Len(weightBandKeys) : weightBandKeys[k] # medKey})
        ELSE <<>>
      rowLines(i) ==
        LET row == T.rows[i]
            med == row[medKey]
            form == IF formKeys = <<>> THEN "" ELSE row[formKeys[1]]
            bandParts == labelledCells(T, row, weightBandKeys)
            doseParts == labelledCells(T, row, otherKeys \o extraWeightKeys)
            cells == labelledCells(T, row, allHeaders(T))
            head == med \o (IF form # "" THEN " (" \o form \o ")" ELSE "")
            parts == (IF medIsWeight THEN <<labelled(T, row, medKey)>>
                      ELSE bandParts) \o doseParts
        IN IF ~nonEmpty(med) THEN <<>>
           ELSE IF bandParts = <<>> /\ doseParts = <<>>
           THEN (IF cells = <<>> THEN <<>>
                 ELSE <<head \o " -> " \o Join(cells, "; ")>>)
           ELSE <<head \o " -> " \o Join(parts, "; ")>>
  IN IF noRows(T) THEN noRowsText(caption)
     ELSE IF weightBandKeys = <<>> THEN renderGenericTable(chunk, T)
     ELSE Join(<<caption \o ". Paediatric weight-band dosing summary:">>
               \o Flatten([i \in 1..Len(T.rows) |-> rowLines(i)]), "\n")

renderRegimenTable(chunk, T) ==
  LET caption == captionOr(chunk, "Regimen composition table")
      regimenKey == findHeader(T, {"regimen", "name", "strategy", "option"})
      drugsKeys == headersMatching(T, {"drug", "component", "medicine",
                                       "composition"})
      durationKeys == headersMatching(T, {"duration", "months", "weeks",
                                          "days", "length of treatment"})
      rowLines(i) ==
        LET row == T.rows[i]
            regimen == row[regimenKey]
            cells == labelledCells(T, row, allHeaders(T))
            parts ==
              (IF drugsKeys # <<>> /\ nonEmpty(row[drugsKeys[1]])
               THEN <<Trim(row[drugsKeys[1]])>> ELSE <<>>)
              \o (IF durationKeys # <<>> /\ nonEmpty(row[durationKeys[1]])
                  THEN <<"duration: " \o Trim(row[durationKeys[1]])>>
                  ELSE <<>>)
        IN IF ~nonEmpty(regimen)
           THEN (IF cells = <<>> THEN <<>>
                 ELSE <<"Row " \o ToString(i) \o ": " \o Join(cells, "; ")>>)
           ELSE IF parts = <<>>
           THEN <<regimen \o ": " \o Join(cells, "; ")>>
           ELSE <<regimen \o " - " \o Join(parts, "; ")>>
  IN IF noRows(T) THEN noRowsText(caption)
     ELSE Join(<<caption \o ". Regimen components and options:">>
               \o Flatten([i \in 1..Len(T.rows) |-> rowLines(i)]), "\n")

renderDecisionTable(chunk, T) ==
  LET caption == captionOr(chunk, "Decision table")
      isActionHeader(j) ==
        has(toLowerCase(T.headers[j]),
            {"then", "recommendation", "action", "management", "treatment",
             "decision", "next step", "regimen"})
      isConditionHeader(j) ==
        has(toLowerCase(T.headers[j]),
            {"if", "criteria", "condition", "situation", "scenario",
             "finding", "result", "status", "baseline", "risk"})
      n == Len(T.headers)
      actionCols == PositionsIn(n, {j \in 1..n : isActionHeader(j)})
      conditionCols ==
        PositionsIn(n, {j \in 1..n : ~isActionHeader(j) /\ isConditionHeader(j)})
      otherCols ==
        PositionsIn(n, {j \in 1..n : ~isActionHeader(j) /\ ~isConditionHeader(j)})
      rowLines(i) ==
        LET row == T.rows[i]
            conditionParts == labelledCells(T, row, conditionCols)
            actionParts == labelledCells(T, row, actionCols)
            otherParts == labelledCells(T, row, otherCols)
            conds == IF conditionParts = <<>> THEN otherParts
                     ELSE conditionParts
            acts == IF conditionParts # <<>> /\ actionParts = <<>>
                    THEN otherParts ELSE actionParts
            condText == IF conds = <<>>
                        THEN "the criteria in this row are met"
                        ELSE Join(conds, "; ")
            actionText ==
              IF acts = <<>>
              THEN "see other columns in this row for recommended action"
              ELSE Join(acts, "; ")
        IN IF conditionParts = <<>> /\ actionParts = <<>>
           THEN (IF otherParts = <<>> THEN <<>>
                 ELSE <<[ifThen |-> FALSE,
                         text |-> "Row " \o ToString(i) \o ": "
                                  \o Join(otherParts, "; ")]>>)
           ELSE <<[ifThen |-> TRUE,
                   text |-> "IF " \o condText \o " THEN " \o actionText]>>
      lines == Flatten([i \in 1..Len(T.rows) |-> rowLines(i)])
      rowsWithIfThen == Cardinality({k \in 1..Len(lines) : lines[k].ifThen})
  IN IF noRows(T) THEN noRowsText(caption)
     ELSE IF rowsWithIfThen = 0 THEN renderGenericTable(chunk, T)
     ELSE Join(<<caption \o ". IF-THEN decision rules:">>
               \o [k \in 1..Len(lines) |-> lines[k].text], "\n")

\* looksTimeLike(value): the second pattern, (month|week|day)\s*\d+, only
\* matches strings the first one matches already.
looksTimeLike(value) ==
  has(toLowerCase(value),
      {"baseline", "month", "week", "day", "visit", "timepoint",
       "end of treatment", "posttreatment", "follow-up", "follow up",
       "followup"})

\* guessTimelineOrientation: [orientation, entity, time], entity and time
\* being header positions (cols: one entity header, the time headers; rows:
\* the entity headers, one time key).
guessTimelineOrientation(T) ==
  LET n == Len(T.headers)
      timeHeaders == PositionsIn(n, {j \in 1..n : looksTimeLike(T.headers[j])})
      others == PositionsIn(n, {j \in 1..n : ~looksTimeLike(T.headers[j])})
      sampleRows == 1..Min(Len(T.rows), 6)
      timeLikeCount == Cardinality({i \in sampleRows :
                                      looksTimeLike(T.rows[i][1])})
  IN IF n = 0 THEN [orientation |-> "unknown", entity |-> <<>>, time |-> <<>>]
     ELSE IF Len(timeHeaders) >= 2
     THEN [orientation |-> "cols",
           entity |-> <<IF others = <<>> THEN 1 ELSE others[1]>>,
           time |-> timeHeaders]
     ELSE IF timeLikeCount >= 2
     THEN [orientation |-> "rows",
           entity |-> [j \in 1..(n - 1) |-> j + 1], time |-> <<1>>]
     ELSE [orientation |-> "unknown", entity |-> <<>>, time |-> <<>>]

renderTimelineTable(chunk, T) ==
  LET caption == captionOr(chunk, "Monitoring schedule")
      o == guessTimelineOrientation(T)
      colLines(i) ==
        LET row == T.rows[i]
            entity == row[o.entity[1]]
            timeParts == labelledCells(T, row, o.time)
        IN IF ~nonEmpty(entity) \/ timeParts = <<>> THEN <<>>
           ELSE <<"For " \o entity \o ": " \o Join(timeParts, "; ")>>
      rowLines(i) ==
        LET row == T.rows[i]
            when == row[o.time[1]]
            parts == labelledCells(T, row, o.entity)
        IN IF ~nonEmpty(when) \/ parts = <<>> THEN <<>>
           ELSE <<"At " \o when \o ": " \o Join(parts, "; ")>>
      lines ==
        IF o.orientation = "cols"
        THEN Flatten([i \in 1..Len(T.rows) |-> colLines(i)])
        ELSE IF o.orientation = "rows"
        THEN Flatten([i \in 1..Len(T.rows) |-> rowLines(i)])
        ELSE <<>>
  IN IF noRows(T) THEN noRowsText(caption)
     ELSE IF lines = <<>> THEN renderGenericTable(chunk, T)
     ELSE Join(<<caption \o ". Follow-up schedule over time:">> \o lines, "\n")

\* row[key] for a key that headers.find may not have found ("" for null:
\* every use tests nonEmpty first)
cellAt(row, keys) == IF keys = <<>> THEN "" ELSE row[keys[1]]

\* A row's line when none of its key cells is filled: all its filled cells
\* after a prefix, or nothing when it has none.
cellsLine(prefix, cells) ==
  IF cells = <<>> THEN <<>> ELSE <<prefix \o Join(cells, "; ")>>

\* The line of an interaction row: line += ... for the drugs, the effect
\* and the recommendation that are there.
interactionText(combo, effect, rec) ==
  combo
  \o (IF effect = "" THEN ""
      ELSE (IF combo # "" THEN " - " ELSE "") \o "effect: " \o effect)
  \o (IF rec = "" THEN ""
      ELSE (IF combo # "" \/ effect # "" THEN "; " ELSE "")
           \o "recommendation: " \o rec)

\* One row of an interaction table: no line, a plain row line, or a
\* combination line; combo tells whether the row named a drug.
interactionRow(T, i, drugs, effect, rec) ==
  IF drugs = <<>> /\ effect = "" /\ rec = ""
  THEN [combo |-> FALSE,
        lines |-> cellsLine("Row " \o ToString(i) \o ": ",
                            labelledCells(T, T.rows[i], allHeaders(T)))]
  ELSE [combo |-> drugs # <<>>,
        lines |-> <<interactionText(
                      IF drugs = <<>> THEN ""
                      ELSE "Combination " \o Join(drugs, " + "),
                      effect, rec)>>]

\* drugHeaders.map((h) => row[h]).filter(nonEmpty).map(trim)
RECURSIVE filledCells(_, _)
filledCells(row, cols) ==
  IF cols = <<>> THEN <<>>
  ELSE (IF nonEmpty(row[cols[1]]) THEN <<Trim(row[cols[1]])>> ELSE <<>>)
       \o filledCells(row, Tail(cols))

interactionRows(T, drugHeaders, effectKey, recKey) ==
  [i \in 1..Len(T.rows) |->
     interactionRow(T, i, filledCells(T.rows[i], drugHeaders),
                    Trim(cellAt(T.rows[i], effectKey)),
                    Trim(cellAt(T.rows[i], recKey)))]

\* The summary of the rows walked, or the generic text when no row counted.
summaryOrGeneric(chunk, T, heading, rows, counted) ==
  IF counted = {} THEN renderGenericTable(chunk, T)
  ELSE Join(<<heading>> \o Flatten([i \in 1..Len(rows) |-> rows[i].lines]),
            "\n")

interactionSummary(chunk, T, caption, drugHeaders, rows) ==
  IF drugHeaders = <<>> THEN renderGenericTable(chunk, T)
  ELSE summaryOrGeneric(chunk, T,
         caption \o ". Drug combinations and recommendations:", rows,
         {i \in 1..Len(rows) : rows[i].combo})

interactionTable(chunk, T, caption, drugHeaders) ==
  IF noRows(T) THEN noRowsText(caption)
  ELSE interactionSummary(chunk, T, caption, drugHeaders,
         interactionRows(T, drugHeaders,
           headersMatching(T, {"interaction", "effect", "impact",
                               "change in level"}),
           headersMatching(T, {"recommendation", "management", "action",
                               "dose adjustment", "avoid"})))

renderInteractionTable(chunk, T) ==
  interactionTable(chunk, T, captionOr(chunk, "Drug-drug interaction table"),
    headersMatching(T, {"drug1", "drug 1", "drug2", "drug 2", "drug a",
                        "drug b", "medicine 1", "medicine 2", "comedication",
                        "arv", "antiretroviral", "tb drug", "rifampin",
                        "rifampicin", "rifapentine", "drug", "medicine",
                        "regimen"}))

renderToxicityTable(chunk, T) ==
  LET caption == captionOr(chunk, "Toxicity / adverse event table")
      gradeKey == findHeader(T, {"grade", "severity", "ctcae"})
      descKey == headersMatching(T, {"description", "finding", "toxicity",
                                     "event", "symptom"})
      mgmtKey == headersMatching(T, {"management", "action", "recommendation",
                                     "dose adjustment", "stop"})
      rowLines(i) ==
        LET row == T.rows[i]
            grade == row[gradeKey]
            desc == cellAt(row, descKey)
            mgmt == cellAt(row, mgmtKey)
            cells == labelledCells(T, row, allHeaders(T))
            parts == (IF nonEmpty(desc) THEN <<Trim(desc)>> ELSE <<>>)
                     \o (IF nonEmpty(mgmt)
                         THEN <<"management: " \o Trim(mgmt)>> ELSE <<>>)
        IN IF ~nonEmpty(grade) /\ ~nonEmpty(desc) /\ ~nonEmpty(mgmt)
           THEN (IF cells = <<>> THEN <<>>
                 ELSE <<[graded |-> FALSE,
                         text |-> "Row " \o ToString(i) \o ": "
                                  \o Join(cells, "; ")]>>)
           ELSE <<[graded |-> nonEmpty(grade),
                   text |-> "Grade " \o grade \o ": "
                            \o (IF parts = <<>>
                                THEN "see table row " \o ToString(i)
                                ELSE Join(parts, " - "))]>>
      lines == Flatten([i \in 1..Len(T.rows) |-> rowLines(i)])
      rowsWithGrades == Cardinality({k \in 1..Len(lines) : lines[k].graded})
  IN IF noRows(T) THEN noRowsText(caption)
     ELSE IF rowsWithGrades = 0 THEN renderGenericTable(chunk, T)
     ELSE Join(<<caption \o ". Toxicity grades and management:">>
               \o [k \in 1..Len(lines) |-> lines[k].text], "\n")

\* The renderer of a subtype, applied.
renderSubtype(subtype, chunk, T) ==
  CASE subtype = "dosing" -> renderDosingTable(chunk, T)
    [] subtype = "peds_dosing" -> renderPedsDosingTable(chunk, T)
    [] subtype = "regimen" -> renderRegimenTable(chunk, T)
    [] subtype = "decision" -> renderDecisionTable(chunk, T)
    [] subtype = "timeline" -> renderTimelineTable(chunk, T)
    [] subtype = "interaction" -> renderInteractionTable(chunk, T)
    [] subtype = "toxicity" -> renderToxicityTable(chunk, T)
    [] OTHER -> renderGenericTable(chunk, T)

\* renderTable(chunk, rawRows): [subtype, tableText]
renderTable(chunk, rawRows) ==
  LET T == normalizeTableRows(rawRows)
      subtype == detectTableSubtype(chunk, T)
  IN [subtype |-> subtype, tableText |-> renderSubtype(subtype, chunk, T)]

-----------------------------------------------------------------------------
(* The tb-rag-query handler *)

\* req.body: "object" is a parsed object (or a string that parses to one),
\* "undefined" no body at all (req.body || {}), "null" the string "null",
\* "unparseable" a string that JSON.parse rejects.
Body(kind, question, top_k, scope) ==
  [kind |-> kind, question |-> question, top_k |-> top_k, scope |-> scope]

ObjectBody(question, top_k, scope) == Body("object", question, top_k, scope)

BodyOfKind(kind) == Body(kind, JSUndefined, JSUndefined, JSUndefined)

Request(method, body) == [method |-> method, body |-> body]

NoRequest == Request("", BodyOfKind("undefined"))

\* The handler's local variables.
\*   scopeInferred: inferScopeFromQuestion was called for this request
\*   cacheHit:      loadRagStore returned the cached RAG_STORE
\*   loadNo:        the number of the file read this request's load made
\*   diskValid:     the files were a loadable, non-empty corpus on receipt
\*   embedCalled:   embedQuestion was called
\*   embedOk:       embedQuestion returned a vector (recorded when the
\*                  provider's call settles)
InitLocals ==
  [intentFlags |-> {}, scope |-> NoScope, scopeInferred |-> FALSE,
   finalTopK |-> 0, cacheHit |-> FALSE, loadNo |-> 0,
   pending |-> [chunks |-> <<>>, vectors |-> <<>>], store |-> NoStore,
   diskValid |-> FALSE, embedCalled |-> FALSE, embedOk |-> FALSE,
   qEmbedding |-> <<>>, scored |-> FALSE, rank |-> NoRank]

\* res.end(JSON.stringify(...)): keys are the keys of the JSON object sent.
Response(status, keys, error, top_k, scope, results, log) ==
  [status |-> status, keys |-> keys, error |-> error, top_k |-> top_k,
   scope |-> scope, results |-> results, log |-> log]

NoLog ==
  [scope_used |-> JSNull, scope_match_count |-> 0, text_candidates |-> 0,
   table_candidates |-> 0, intent_flags |-> {}, chunk_count |-> 0,
   embedding_count |-> 0]

NoResponse == Response(0, {}, "", 0, JSNull, <<>>, NoLog)

ErrorResponse(status, error) ==
  Response(status, {"error"}, error, 0, JSNull, <<>>, NoLog)

MethodNotAllowed == "Use POST to query the TB RAG store."

MissingQuestion == "Missing or empty 'question' string in request body."

StoreEmpty == "RAG store is empty or failed to load."

StoreLoadFailed == "loadRagStore threw"

BodySyntaxError == "SyntaxError: JSON.parse"

BodyTypeError == "TypeError: cannot read properties of null"

QuestionTypeError == "TypeError: toLowerCase is not a function"

ChunkTypeError == "TypeError: cannot read properties of undefined"

TableReadError == "ENOENT: no such file or directory"

EmbedErrors == {"OPENAI_API_KEY is not set", "OpenAI embeddings error"}

\* The errors that come from the corpus store.
StoreErrors == {StoreEmpty, StoreLoadFailed}

\* Scope resolution that asks the classifier first and uses the caller's
\* scope only when inference finds nothing.
resolveScopeInferFirst(bodyScope, question, intentFlags) ==
  LET inferred == inferScopeFromQuestion(question, intentFlags)
  IN IF inferred # NoScope \/ ~Truthy(bodyScope)
     THEN [scope |-> inferred, inferred |-> TRUE]
     ELSE [scope |-> bodyScope.v, inferred |-> FALSE]

\* let scope = body.scope || null; if (!scope) scope =
\* inferScopeFromQuestion(question, intentFlags).  A scope the caller
\* supplies is a string here.
resolveScope(bodyScope, question, intentFlags) ==
  IF Truthy(bodyScope)
  THEN [scope |-> bodyScope.v, inferred |-> FALSE]
  ELSE [scope |-> inferScopeFromQuestion(question, intentFlags),
        inferred |-> TRUE]

\* scope || null in the response and the log.
ScopeOrNull(scope) == IF scope = NoScope THEN JSNull ELSE JSStr(scope)

\* !question || typeof question !== "string" || !question.trim()
invalidQuestion(question) ==
  \/ ~Truthy(question)
  \/ question.t # "string"
  \/ IsBlank(question.v)

\* The handler up to, not including, await loadRagStore(): [status, error,
\* L].  status 0 means the handler goes on to load the store.
preamble(request) ==
  LET body == request.body
      question == body.question
      qtext == IF Truthy(question) /\ question.t = "string"
               THEN question.v ELSE ""
      intentFlags == inferIntentFlags(qtext)
      sc == resolveScope(body.scope, qtext, intentFlags)
      L == [InitLocals EXCEPT !.intentFlags = intentFlags,
                              !.scope = sc.scope,
                              !.scopeInferred = sc.inferred,
                              !.finalTopK = clampTopK(body.top_k)]
      fail(status, error) == [status |-> status, error |-> error, L |-> InitLocals]
  IN IF request.method # "POST" THEN fail(405, MethodNotAllowed)
     ELSE IF body.kind = "unparseable" THEN fail(500, BodySyntaxError)
     ELSE IF body.kind = "null" THEN fail(500, BodyTypeError)
     ELSE IF Truthy(question) /\ question.t # "string"
          THEN fail(500, QuestionTypeError)
     ELSE IF invalidQuestion(question)
          THEN [status |-> 400, error |-> MissingQuestion,
                L |-> [L EXCEPT !.finalTopK = 0]]
     ELSE [status |-> 0, error |-> "", L |-> L]

\* The handler between the return of loadRagStore and the call of
\* embedQuestion: [pc, L, res].
afterLoad(L, store) ==
  IF store.embeddings = <<>> \/ store.chunks = <<>>
  THEN [pc |-> "done", L |-> [L EXCEPT !.store = store],
        res |-> ErrorResponse(500, StoreEmpty)]
  ELSE [pc |-> "awaitEmbed",
        L |-> [L EXCEPT !.store = store,
                        !.finalTopK = Min(L.finalTopK, Len(store.embeddings)),
                        !.embedCalled = TRUE],
        res |-> NoResponse]

\* loadTableRows(attachmentPath): [threw, rows].  fs.readFileSync throws on
\* a file that is missing or may not be read.  resolveTablePath roots the
\* manifest's path under public/rag; files are looked up by manifest path.
loadTableRows(tables, attachmentPath) ==
  LET file == IF attachmentPath \in DOMAIN tables THEN tables[attachmentPath]
              ELSE MissingFile
  IN IF file.readable THEN [threw |-> FALSE, rows |-> file.rows]
     ELSE [threw |-> TRUE, rows |-> <<>>]

\* What the caller reads of the object enrichChunkWithTable returns: the
\* chunk, its table_subtype and table_text (JSUndefined when the object has
\* none), and whether the call threw.
Unenriched(chunk) ==
  [chunk |-> chunk, table_subtype |-> chunk.table_subtype,
   table_text |-> JSUndefined, threw |-> FALSE]

\* An enrichment with no try/catch around the load: the exception leaves
\* the function.
enrichChunkWithTableNoCatch(chunk, tables) ==
  LET load == loadTableRows(tables, chunk.attachment_path)
      r == renderTable(chunk, load.rows)
  IN IF toLowerCase(chunk.content_type) # "table" \/ chunk.attachment_path = ""
     THEN Unenriched(chunk)
     ELSE IF load.threw THEN [Unenriched(chunk) EXCEPT !.threw = TRUE]
     ELSE [chunk |-> chunk, table_subtype |-> r.subtype,
           table_text |-> JSStr(r.tableText), threw |-> FALSE]

enrichChunkWithTable(chunk, tables) ==
  LET load == loadTableRows(tables, chunk.attachment_path)
      r == renderTable(chunk, load.rows)
  IN IF toLowerCase(chunk.content_type) # "table" \/ chunk.attachment_path = ""
     THEN Unenriched(chunk)
     ELSE IF load.threw THEN Unenriched(chunk)
     ELSE [chunk |-> chunk, table_subtype |-> r.subtype,
           table_text |-> JSStr(r.tableText), threw |-> FALSE]

\* results = top.map(...): the fields of a result the model keeps.
resultOf(c, score) ==
  [chunk_id |-> c.chunk.chunk_id, doc_id |-> c.chunk.doc_id,
   section_path |-> c.chunk.section_path,
   content_type |-> c.chunk.content_type,
   table_subtype |-> IF c.table_subtype = "" THEN JSNull
                     ELSE JSStr(c.table_subtype),
   table_text |-> IF c.table_text = JSUndefined THEN JSNull ELSE c.table_text,
   score |-> score]

\* The answer to a query that was ranked: 500 when the ranking threw, else
\* the 200 response: [L, res].
respondWith(L, rank, enriched) ==
  IF rank.threw \/ \E k \in 1..Len(rank.top) : enriched[k].threw
  THEN [L |-> [L EXCEPT !.rank = rank],
        res |-> ErrorResponse(500, IF rank.threw THEN ChunkTypeError
                                   ELSE TableReadError)]
  ELSE [L |-> [L EXCEPT !.scored = TRUE, !.rank = rank],
        res |->
          Response(200,
            {"question", "top_k", "scope", "results", "retrieval_log"},
            "", L.finalTopK, ScopeOrNull(L.scope),
            [k \in 1..Len(rank.top) |-> resultOf(enriched[k], rank.top[k].score)],
            [scope_used |-> ScopeOrNull(L.scope),
             scope_match_count |-> rank.scopeMatchCount,
             text_candidates |-> Len(rank.textIndices),
             table_candidates |-> Len(rank.tableIndices),
             intent_flags |-> L.intentFlags,
             chunk_count |-> Len(L.store.chunks),
             embedding_count |-> Len(L.store.embeddings)])]

\* top.map: every selected chunk is enriched, then the response is built.
respond(L, rank, tables) ==
  respondWith(L, rank,
    [k \in 1..Len(rank.top) |->
       enrichChunkWithTable(ChunkAt(L.store.chunks, rank.top[k].index),
                            tables)])

\* The handler with the query embedding in hand.
rankAndRespond(L, q, tables) ==
  CHOOSE a \in
    {respond([L EXCEPT !.qEmbedding = q], rank, tables) :
       rank \in {rankQuery(L.store.chunks, L.store.embeddings, L.scope,
                           L.intentFlags, q, L.finalTopK)}} : TRUE

\* A handler that ranks with an all-zero query vector when embedQuestion
\* fails, instead of failing the query.
afterEmbedZeroVector(L, outcome, tables) ==
  rankAndRespond(L, IF outcome.ok THEN normalize(outcome.vector) ELSE <<0, 0>>,
                 tables)

\* The handler after await embedQuestion(question): [L, res].  outcome is
\* what the embedding provider did: [ok, vector, error]; a failure is thrown
\* at the await and caught by the handler's catch.
afterEmbed(L, outcome, tables) ==
  IF ~outcome.ok
  THEN [L |-> L, res |-> ErrorResponse(500, outcome.error)]
  ELSE rankAndRespond(L, normalize(outcome.vector), tables)

\* A handler that enriches the stored record in place (Object.assign on
\* chunks[index]) instead of a copy of it.
storeAfterQueryInPlace(store, rank, tables) ==
  [store EXCEPT !.chunks =
     [i \in 1..Len(store.chunks) |->
        IF \E k \in 1..Len(rank.top) : rank.top[k].index = i - 1
        THEN [store.chunks[i] EXCEPT
                !.table_subtype =
                   enrichChunkWithTable(store.chunks[i], tables).table_subtype]
        ELSE store.chunks[i]]]

\* The store object the handler holds, after the handler has ranked and
\* built its results.  The handler writes to none of its records: the
\* scored entries are new {index, score} objects, the boosts and penalties
\* assign to entry.score, and enrichChunkWithTable returns the chunk
\* untouched or a copy ({...chunk, ...}) of it.
storeAfterQuery(store, rank, tables) == store

\* A corpus that loads and is not empty.
DiskValid(d) ==
  LET c == readCorpus(d) IN c.ok /\ c.chunks # <<>> /\ c.vectors # <<>>

\* How many times the corpus files may be read in a run of the model.
MaxLoads == 3

(* The tb_peds_tda endpoint *)

\* The points of algorithm B, of the symptoms of algorithm A, and of the
\* chest X-ray findings of algorithm A.
B_POINTS ==
  [cough_gt_2w |-> 5, fever_gt_2w |-> 10, lethargy |-> 4,
   weight_loss_or_ftt |-> 5, haemoptysis |-> 9, night_sweats |-> 6,
   swollen_nodes |-> 7, tachycardia |-> 4, tachypnoea |-> 2]

A_SYMPTOMS ==
  [cough_gt_2w |-> 2, fever_gt_2w |-> 5, lethargy |-> 3,
   weight_loss_or_ftt |-> 3, haemoptysis |-> 4, night_sweats |-> 2,
   swollen_nodes |-> 4, tachycardia |-> 2, tachypnoea |-> -1]

A_CXR ==
  [cavities |-> 6, enlarged_nodes |-> 17, opacities |-> 5, miliary |-> 15,
   effusion |-> 8]

TREAT_THRESHOLD == 11

\* A vital sign that was not given (rr == null, hr == null).
NoVital == -1

isTachypnoeic(age, rr) ==
  IF rr = NoVital THEN FALSE
  ELSE IF age = "<2m" THEN rr >= 60
  ELSE IF age = "2-12m" THEN rr >= 50
  ELSE IF age = "1-5y" THEN rr >= 40
  ELSE rr >= 30

isTachycardic(age, hr) ==
  IF hr = NoVital THEN FALSE
  ELSE IF age = "<2m" THEN hr >= 170
  ELSE IF age = "2-12m" THEN hr >= 160
  ELSE IF age = "1-5y" THEN hr >= 140
  ELSE hr >= 120

\* The sum the scoring loops compute: the points of the keys of entries
\* that are true and have points.
RECURSIVE SumPoints(_, _, _)
SumPoints(keys, entries, points) ==
  IF keys = {} THEN 0
  ELSE LET k == CHOOSE x \in keys : TRUE
       IN (IF entries[k] /\ k \in DOMAIN points THEN points[k] ELSE 0)
            + SumPoints(keys \ {k}, entries, points)

\* An exception thrown by computePediatricTbTdaScore, and its result.
TdaThrow(message) ==
  [threw |-> TRUE, message |-> message, algorithm |-> "", score |-> 0,
   meets_threshold |-> FALSE]

MissingAlgorithmOrAgeBand == "Missing algorithm or age_band"

AlgorithmMustBeAOrB == "Algorithm must be 'A' or 'B'"

\* computePediatricTbTdaScore(input).  algorithm and age_band are strings,
\* "" when they are not given; symptoms and cxr map the keys given to their
\* booleans; vitals holds hr and rr, NoVital when not given.  The
\* explanation strings are left out.
computePediatricTbTdaScore(input) ==
  IF input.algorithm = "" \/ input.age_band = ""
  THEN TdaThrow(MissingAlgorithmOrAgeBand)
  ELSE IF input.algorithm \notin {"A", "B"} THEN TdaThrow(AlgorithmMustBeAOrB)
  ELSE
    LET tachycardia ==
          IF "tachycardia" \in DOMAIN input.symptoms
          THEN input.symptoms.tachycardia
          ELSE isTachycardic(input.age_band, input.vitals.hr)
        tachypnoea ==
          IF "tachypnoea" \in DOMAIN input.symptoms
          THEN input.symptoms.tachypnoea
          ELSE isTachypnoeic(input.age_band, input.vitals.rr)
        entries ==
          [k \in DOMAIN input.symptoms \cup {"tachycardia", "tachypnoea"} |->
             IF k = "tachycardia" THEN tachycardia
             ELSE IF k = "tachypnoea" THEN tachypnoea
             ELSE input.symptoms[k]]
        score ==
          IF input.algorithm = "B"
          THEN SumPoints(DOMAIN entries, entries, B_POINTS)
          ELSE SumPoints(DOMAIN entries, entries, A_SYMPTOMS)
                 + SumPoints(DOMAIN input.cxr, input.cxr, A_CXR)
    IN [threw |-> FALSE, message |-> "", algorithm |-> input.algorithm,
        score |-> score, meets_threshold |-> score >= TREAT_THRESHOLD]

\* What the endpoint did with a request: the status and error it answered
\* with (status 0: it answered nothing, its promise rejected), whether
\* computePediatricTbTdaScore was run, and the score sent.
TdaAnswer(status, error, computed, result) ==
  [status |-> status, error |-> error, computed |-> computed,
   result |-> result]

NoScore == TdaThrow("")

\* const body = ...; body.algorithm: reading a property of null.
TdaBodyTypeError == "TypeError: Cannot read properties of null"

\* The body of the endpoint after its three guards.  body.kind is what
\* req.body or the text of the request is: "object" an object, "empty" no
\* text (readBody gives "{}"), "garbage" text JSON.parse rejects, "null" the
\* JSON text null.
tdaScoreBody(body) ==
  IF body.kind = "garbage" THEN TdaAnswer(400, "Invalid JSON", FALSE, NoScore)
  ELSE IF body.kind = "null"
  THEN TdaAnswer(0, TdaBodyTypeError, FALSE, NoScore)
  ELSE
    LET r == computePediatricTbTdaScore(
               IF body.kind = "empty"
               THEN [algorithm |-> "", age_band |-> "", symptoms |-> <<>>,
                     vitals |-> [hr |-> NoVital, rr |-> NoVital],
                     cxr |-> <<>>]
               ELSE body.input)
    IN IF r.threw THEN TdaAnswer(400, r.message, TRUE, NoScore)
       ELSE TdaAnswer(200, "", TRUE, r)

\* export default async function handler(req, res) of api/tb_peds_tda.js,
\* with API_KEY = process.env.TB_PEDS_TDA_API_KEY || "".
tdaHandler(request, API_KEY) ==
  IF request.method # "POST"
  THEN TdaAnswer(405, "Method not allowed", FALSE, NoScore)
  ELSE IF API_KEY = ""
  THEN TdaAnswer(500, "Server misconfigured: missing API key", FALSE, NoScore)
  ELSE IF request.authorization # "Bearer " \o API_KEY
  THEN TdaAnswer(401, "Unauthorized", FALSE, NoScore)
  ELSE tdaScoreBody(request.body)

-----------------------------------------------------------------------------
(* The tb-mentor handler and its tool loop *)

\* A tool call of an assistant message.  arguments is "ok" for text that
\* JSON.parse accepts and "malformed" for text it rejects.
ToolCall(id, name, arguments) ==
  [id |-> id, name |-> name, arguments |-> arguments]

\* A message of the conversation; tool_calls is <<>> and tool_call_id is ""
\* where the message has none.
Message(role, content, tool_calls, tool_call_id) ==
  [role |-> role, content |-> content, tool_calls |-> tool_calls,
   tool_call_id |-> tool_call_id]

\* A tool message that does not carry the id of its call.
toolMessageNoId(tool_call_id, content) == Message("tool", content, <<>>, "")

\* messages.push({ role: "tool", tool_call_id, content })
toolMessage(tool_call_id, content) ==
  Message("tool", content, <<>>, tool_call_id)

\* extractToolsUsed(messages): the names of the tool calls of the messages.
extractToolsUsed(messages) ==
  UNION {{messages[m].tool_calls[c].name :
            c \in 1..Len(messages[m].tool_calls)} : m \in 1..Len(messages)}

\* How many entries of the history are kept: .slice(-12).
HistoryCap == 12

\* sanitizedHistory: the entries with role user or assistant and a content
\* that is a string with more than white space (content "" stands for every
\* other content), the last HistoryCap of them, as { role, content }.
sanitizeHistory(history) ==
  LET valid == FilterSeq(history,
                 {k \in 1..Len(history) :
                    /\ history[k].role \in {"user", "assistant"}
                    /\ ~IsBlank(history[k].content)})
      kept == SubSeq(valid, Max(1, Len(valid) - HistoryCap + 1), Len(valid))
  IN [k \in 1..Len(kept) |->
        Message(kept[k].role, Trim(kept[k].content), <<>>, "")]

\* The response of the handler; status 0: none sent yet.
MentorResponse(status, error, output, toolsUsed) ==
  [status |-> status, error |-> error, output |-> output,
   toolsUsed |-> toolsUsed]

NoMentorResponse == MentorResponse(0, "", "", {})

\* The handler before a request: pc is where it is suspended, toolCalls the
\* tool calls of the assistant message it is working through, next the
\* number of the tool call whose remote call it awaits, rounds the number of
\* assistant messages with tool calls it has received, calls the
\* completion requests ("create") and remote calls it has made, in order,
\* each remote call followed by how it ended and a completion request by
\* "threw" when it threw.
MentorIdle ==
  [pc |-> "idle", messages |-> <<>>, toolCalls |-> <<>>, next |-> 0,
   rounds |-> 0, output |-> "", res |-> NoMentorResponse, calls |-> <<>>]

\* return res.status(...).json(...)
mentorRespond(M, response) == [M EXCEPT !.pc = "done", !.res = response]

\* The catch of the handler.
mentorCatch(M, detail) ==
  mentorRespond(M, MentorResponse(500, "Internal server error", "", {}))

\* await client.chat.completions.create({ messages, tools })
requestCompletion(M) ==
  [M EXCEPT !.pc = "awaitCompletion", !.calls = Append(@, "create")]

\* The result of a tool call that needs no remote call.
TdaPreconditionFailed == "TDA_PRECONDITION_FAILED"

UnknownTool(name) == "Unknown tool: " \o name

pushToolMessage(M, tool_call_id, content) ==
  [M EXCEPT !.messages = Append(@, toolMessage(tool_call_id, content))]

\* The for loop over msg.tool_calls from the i-th tool call to the next
\* await: a remote call (callRag, callTda), or the next completion when the
\* loop is through; JSON.parse of malformed arguments throws.
RECURSIVE runToolCalls(_, _)
runToolCalls(M, i) ==
  IF i > Len(M.toolCalls) THEN requestCompletion(M)
  ELSE IF M.toolCalls[i].arguments = "malformed"
  THEN mentorCatch(M, "SyntaxError")
  ELSE IF M.toolCalls[i].name = "fetchRelevantTbGuidance"
  THEN [M EXCEPT !.pc = "awaitTool", !.next = i,
                 !.calls = Append(@, "callRag")]
  ELSE IF M.toolCalls[i].name = "computePediatricTbTdaScore"
  THEN IF "fetchRelevantTbGuidance" \notin extractToolsUsed(M.messages)
       THEN runToolCalls(
              pushToolMessage(M, M.toolCalls[i].id, TdaPreconditionFailed),
              i + 1)
       ELSE [M EXCEPT !.pc = "awaitTool", !.next = i,
                      !.calls = Append(@, "callTda")]
  ELSE runToolCalls(
         pushToolMessage(M, M.toolCalls[i].id,
                         UnknownTool(M.toolCalls[i].name)),
         i + 1)

\* The handler from its invocation to its first await or its response.
\* request.message is a tagged value; request.history is [kind, entries],
\* kind being "undefined", "notArray" (a truthy value that is no array) or
\* "array".
mentorReceive(M, request) ==
  IF request.method # "POST"
  THEN mentorRespond(M, MentorResponse(405, "Method not allowed", "", {}))
  ELSE IF ~Truthy(request.message) \/ request.message.t # "string"
  THEN mentorRespond(M, MentorResponse(400,
                          "Missing 'message' in request body", "", {}))
  ELSE IF request.history.kind = "notArray"
  THEN mentorRespond(M, MentorResponse(400, "'history' must be an array",
                                       "", {}))
  ELSE requestCompletion(
         [M EXCEPT !.messages =
            <<Message("system", "SYSTEM_PROMPT", <<>>, "")>>
            \o sanitizeHistory(IF request.history.kind = "array"
                               THEN request.history.entries ELSE <<>>)
            \o <<Message("user", request.message.v, <<>>, "")>>])

\* The handler after await client.chat.completions.create: completion is
\* [ok, tool_calls, content], ok FALSE when the call throws.
afterCompletion(M, completion) ==
  IF ~completion.ok
  THEN mentorCatch([M EXCEPT !.calls = Append(@, "threw")], "completion")
  ELSE IF Len(completion.tool_calls) > 0
  THEN runToolCalls(
         [M EXCEPT !.messages =
                      Append(@, Message("assistant", completion.content,
                                        completion.tool_calls, "")),
                   !.toolCalls = completion.tool_calls,
                   !.rounds = @ + 1],
         1)
  ELSE [M EXCEPT !.messages =
                    Append(@, Message("assistant", completion.content,
                                      <<>>, "")),
                 !.toolCalls = <<>>,
                 !.output = completion.content,
                 !.pc = "awaitSummaries"]

\* The handler after await callRag(args) or await callTda(args): outcome is
\* [ok, content], ok FALSE when the call throws (the endpoint did not answer
\* 2xx, or the fetch failed).
afterTool(M, outcome) ==
  IF ~outcome.ok
  THEN mentorCatch([M EXCEPT !.calls = Append(@, "threw")], "tool")
  ELSE runToolCalls(
         pushToolMessage([M EXCEPT !.calls = Append(@, "returned")],
                         M.toolCalls[M.next].id, outcome.content),
         M.next + 1)

\* The handler after await Promise.all([...]) of the three summaries, none
\* of which throws (each catches and returns null or empty fields).
afterSummaries(M) ==
  mentorRespond(M, MentorResponse(200, "", M.output,
                                  extractToolsUsed(M.messages)))

-----------------------------------------------------------------------------
(* Actions.  r is a request slot: a request the process is serving. *)

\* The handler is invoked with a request and runs to its first suspension:
\* to a response, or into loadRagStore, which returns the cached store or
\* reads the files and suspends at await loadEmbeddings(ragDir).
Receive(r, request) ==
  /\ pc[r] = "idle"
  /\ req' = [req EXCEPT ![r] = request]
  /\ LET pre == preamble(request)
         L == [pre.L EXCEPT !.diskValid = DiskValid(disk)]
     IN IF pre.status # 0
        THEN /\ pc' = [pc EXCEPT ![r] = "done"]
             /\ loc' = [loc EXCEPT ![r] = pre.L]
             /\ res' = [res EXCEPT ![r] = ErrorResponse(pre.status, pre.error)]
             /\ UNCHANGED <<RAG_STORE, fileReads>>
        ELSE IF RAG_STORE # NoStore
        THEN LET a == afterLoad([L EXCEPT !.cacheHit = TRUE], RAG_STORE)
             IN /\ pc' = [pc EXCEPT ![r] = a.pc]
                /\ loc' = [loc EXCEPT ![r] = a.L]
                /\ res' = [res EXCEPT ![r] = a.res]
                /\ UNCHANGED <<RAG_STORE, fileReads>>
        ELSE /\ fileReads < MaxLoads
             /\ fileReads' = fileReads + 1
             /\ UNCHANGED RAG_STORE
             /\ LET c == readCorpus(disk)
                IN IF c.ok
                   THEN /\ pc' = [pc EXCEPT ![r] = "awaitLoad"]
                        /\ loc' = [loc EXCEPT ![r] =
                                     [L EXCEPT !.loadNo = fileReads + 1,
                                               !.pending = [chunks |-> c.chunks,
                                                            vectors |-> c.vectors]]]
                        /\ res' = [res EXCEPT ![r] = NoResponse]
                   ELSE /\ pc' = [pc EXCEPT ![r] = "done"]
                        /\ loc' = [loc EXCEPT ![r] =
                                     [L EXCEPT !.loadNo = fileReads + 1]]
                        /\ res' = [res EXCEPT ![r] =
                                     ErrorResponse(500, StoreLoadFailed)]
  /\ UNCHANGED <<disk, fnIn, fnOut, mentor>>

\* loadRagStore resumes after its await: it normalizes, assigns RAG_STORE and
\* returns; the handler checks the store and calls embedQuestion.
LoadResume(r) ==
  /\ pc[r] = "awaitLoad"
  /\ LET store == buildStore(loc[r].loadNo, loc[r].pending.chunks,
                             loc[r].pending.vectors)
         a == afterLoad(loc[r], store)
     IN /\ RAG_STORE' = store
        /\ pc' = [pc EXCEPT ![r] = a.pc]
        /\ loc' = [loc EXCEPT ![r] = a.L]
        /\ res' = [res EXCEPT ![r] = a.res]
  /\ UNCHANGED <<disk, fileReads, req, fnIn, fnOut, mentor>>

\* embedQuestion settles: the handler ranks and answers, or answers 500.
EmbedResume(r, outcome) ==
  /\ pc[r] = "awaitEmbed"
  /\ \E a \in {afterEmbed(loc[r], outcome, disk.tables)} :
        /\ pc' = [pc EXCEPT ![r] = "done"]
        /\ loc' = [loc EXCEPT ![r] = [a.L EXCEPT !.embedOk = outcome.ok]]
        /\ res' = [res EXCEPT ![r] = a.res]
        /\ RAG_STORE' = IF loc[r].store.id = RAG_STORE.id
                        THEN storeAfterQuery(RAG_STORE, a.L.rank, disk.tables)
                        ELSE RAG_STORE
  /\ UNCHANGED <<disk, fileReads, req, fnIn, fnOut, mentor>>

\* The request is over; the slot serves the next one.
Release(r) ==
  /\ pc[r] = "done"
  /\ pc' = [pc EXCEPT ![r] = "idle"]
  /\ req' = [req EXCEPT ![r] = NoRequest]
  /\ loc' = [loc EXCEPT ![r] = InitLocals]
  /\ res' = [res EXCEPT ![r] = NoResponse]
  /\ UNCHANGED <<disk, RAG_STORE, fileReads, fnIn, fnOut, mentor>>

\* An operator replaces the files under public/rag.
OperatorWrites(image) ==
  /\ disk # image
  /\ disk' = image
  /\ UNCHANGED <<RAG_STORE, fileReads, pc, req, loc, res, fnIn, fnOut, mentor>>

\* The tb-mentor handler is invoked with a request and runs to its
\* response or to its first completion request.
MentorReceive(request) ==
  /\ mentor.pc = "idle"
  /\ mentor' = mentorReceive(mentor, request)
  /\ UNCHANGED <<disk, RAG_STORE, fileReads, pc, req, loc, res, fnIn, fnOut>>

\* How many assistant messages with tool calls a request is given.
MaxToolRounds == 2

\* The completion settles: the handler works through the tool calls of the
\* assistant message to its next await, or goes on to the summaries.
CompletionResume(completion) ==
  /\ mentor.pc = "awaitCompletion"
  /\ Len(completion.tool_calls) > 0 => mentor.rounds < MaxToolRounds
  /\ mentor' = afterCompletion(mentor, completion)
  /\ UNCHANGED <<disk, RAG_STORE, fileReads, pc, req, loc, res, fnIn, fnOut>>

\* callRag or callTda settles: with the endpoint's JSON, or by throwing.
ToolResume(ok) ==
  /\ mentor.pc = "awaitTool"
  /\ mentor' =
       afterTool(mentor,
                 [ok |-> ok,
                  content |->
                    IF mentor.toolCalls[mentor.next].name
                         = "fetchRelevantTbGuidance"
                    THEN "guidance" ELSE "score"])
  /\ UNCHANGED <<disk, RAG_STORE, fileReads, pc, req, loc, res, fnIn, fnOut>>

\* The three summaries settle and the handler answers.
SummariesResume ==
  /\ mentor.pc = "awaitSummaries"
  /\ mentor' = afterSummaries(mentor)
  /\ UNCHANGED <<disk, RAG_STORE, fileReads, pc, req, loc, res, fnIn, fnOut>>

-----------------------------------------------------------------------------
(* Inputs *)

QPedsMdr == "Which regimen for a child with MDR-TB?"

QTpt == "TPT for household contacts"

QXpert == "Xpert Ultra in adults"

QDosing == "BPaL dosing"

QPlain == "Hello there"

QMdrContact ==
  "What is the recommended TPT regimen for a household contact of an MDR-TB case?"

ValidQuestions == {QPedsMdr, QTpt, QXpert, QDosing, QPlain, QMdrContact}

\* Values of body.question the handler must reject.
InvalidQuestionValues ==
  {JSUndefined, JSNull, JSStr(""), JSStr("   "), JSNum(0), JSNum(5),
   JSBool(TRUE), JSBool(FALSE), JSObject}

TopKValues ==
  {JSUndefined, JSNum(-1), JSNum(0), JSNum(1), JSNum(3), JSNum(8), JSNum(9),
   JSStr("3")}

ExplicitScopes ==
  {JSStr("treatment"), JSStr("diagnosis"), JSStr("prevention"),
   JSStr("pediatrics"), JSStr("nosuchscope")}

\* body.scope values that leave the scope to inference.
AbsentScopes == {JSUndefined, JSNull, JSStr("")}

\* The requests of the sequential specification.
QueryRequests ==
  {Request("POST", ObjectBody(JSStr(q), JSUndefined, sc)) :
     q \in ValidQuestions, sc \in ExplicitScopes \cup AbsentScopes}
  \cup
  {Request("POST", ObjectBody(JSStr(q), k, JSUndefined)) :
     q \in {QPlain, QPedsMdr}, k \in TopKValues}
  \cup
  {Request("POST", ObjectBody(v, JSUndefined, sc)) :
     v \in InvalidQuestionValues, sc \in {JSUndefined, JSStr("treatment")}}
  \cup
  {Request("POST", BodyOfKind(kind)) : kind \in {"unparseable", "null", "undefined"}}
  \cup
  {Request("GET", ObjectBody(JSStr(QPlain), JSUndefined, JSUndefined))}

EmbedOutcome(ok, vector, error) == [ok |-> ok, vector |-> vector, error |-> error]

EmbedFailures == {EmbedOutcome(FALSE, <<>>, e) : e \in EmbedErrors}

QueryEmbedOutcomes ==
  EmbedFailures \cup {EmbedOutcome(TRUE, v, "") : v \in {<<3, 4>>, <<10, 0>>, <<0, 0>>}}

\* The corpora of the sequential specification.
QueryDisks ==
  {DiskMixed, DiskMixedNpy, DiskNoIds, DiskDupIds, DiskMoreChunks,
   DiskMoreEmbeddings, DiskLarge, DiskUnderRanked, DiskLostTables,
   DiskEmptyEmbeddings,
   DiskNoEmbeddings}

\* The requests, embedding outcomes and disk images of the concurrent
\* specification.
StoreRequests ==
  {Request("POST", ObjectBody(JSStr(QPlain), JSUndefined, JSUndefined)),
   Request("POST", ObjectBody(JSStr(""), JSUndefined, JSUndefined))}

StoreEmbedOutcomes ==
  {EmbedOutcome(FALSE, <<>>, "OpenAI embeddings error"),
   EmbedOutcome(TRUE, <<3, 4>>, "")}

StoreDisks ==
  {DiskSmall, DiskMixed, DiskEmptyChunks, DiskNoChunksFile, DiskBadEmbeddings}

Slots == {1, 2}

Tables ==
  {<<>>, TabWeightBand, TabMedByBand, TabDoseNoBand, TabPopulation,
   TabBlankCells, TabBlankBands, TabRegimen, TabDecision, TabTimeline, TabInteraction,
   TabToxicity, TabHeaderOnly, TabNoRowIndex}

Captions ==
  {"", "Table 3", "Dosing of first-line medicines",
   "Paediatric dosing by weight band", "Recommended regimens",
   "Monitoring schedule", "Drug interactions", "Toxicity management",
   "Eligibility criteria"}

TableSections == {"4.1. Adults", "5.3. Treatment in children"}

TableCalls ==
  {[fn |-> "renderTable",
    chunk |-> [TableChunk("tab", M4Doc, sec, "treatment", "", "tables/t.csv")
                 EXCEPT !.caption = cap],
    rawRows |-> t] :
     cap \in Captions, sec \in TableSections, t \in Tables}

\* The requests made of the tb-mentor handler.
HistoryEntry(role, content, tool_calls) ==
  [role |-> role, content |-> content, tool_calls |-> tool_calls]

NoHistory == [kind |-> "undefined", entries |-> <<>>]

\* A history whose assistant entry carries tool calls, with an entry of the
\* role tool and an entry of blank content.
HistoryWithTools ==
  [kind |-> "array",
   entries |->
     <<HistoryEntry("user", " A child with cough ", <<>>),
       HistoryEntry("assistant", "Earlier answer",
                    <<ToolCall("call_0_1", "fetchRelevantTbGuidance", "ok")>>),
       HistoryEntry("tool", "guidance", <<>>),
       HistoryEntry("user", "  ", <<>>)>>]

MentorRequest(method, message, history) ==
  [method |-> method, message |-> message, history |-> history]

MentorRequests ==
  {MentorRequest("GET", JSStr(QPedsMdr), NoHistory),
   MentorRequest("POST", JSUndefined, NoHistory),
   MentorRequest("POST", JSNum(5), NoHistory),
   MentorRequest("POST", JSStr(QPedsMdr),
                 [kind |-> "notArray", entries |-> <<>>]),
   MentorRequest("POST", JSStr(QPedsMdr), NoHistory),
   MentorRequest("POST", JSStr(QPedsMdr), HistoryWithTools)}

\* The tools the assistant may name: the two the handler knows and one it
\* does not.
ToolNames ==
  {"fetchRelevantTbGuidance", "computePediatricTbTdaScore", "lookupDrug"}

\* How many tool calls an assistant message carries at most.
MaxToolCalls == 2

ToolCallId(round, position) ==
  "call_" \o ToString(round) \o "_" \o ToString(position)

\* What a completion request of the given round may end in: an exception, an
\* assistant message without tool calls, one with up to MaxToolCalls tool
\* calls, or one whose tool call has arguments that are not JSON.
Completions(round) ==
  {[ok |-> FALSE, tool_calls |-> <<>>, content |-> ""],
   [ok |-> TRUE, tool_calls |-> <<>>, content |-> "Final answer"],
   [ok |-> TRUE, content |-> "",
    tool_calls |-> <<ToolCall(ToolCallId(round, 1), "fetchRelevantTbGuidance",
                              "malformed")>>]}
  \cup
  {[ok |-> TRUE, content |-> "",
    tool_calls |-> [p \in 1..Len(names) |->
                      ToolCall(ToolCallId(round, p), names[p], "ok")]] :
     names \in UNION {[1..n -> ToolNames] : n \in 1..MaxToolCalls}}

-----------------------------------------------------------------------------
(* Unit application of pure functions *)

NoCall == [fn |-> "none", question |-> "", flags |-> {}]

NoResult == [done |-> FALSE, value |-> ""]

QModule3 == "What is in Module 3?"

ScopeQuestions == {"", QPlain, QDosing, QModule3}

ScopeCalls ==
  {[fn |-> "inferScopeFromQuestion", question |-> q, flags |-> f] :
     q \in ScopeQuestions, f \in SUBSET IntentFlagNames}

ApplyInferScope ==
  /\ fnIn.fn = "inferScopeFromQuestion"
  /\ ~fnOut.done
  /\ fnOut' = [done |-> TRUE,
               value |-> inferScopeFromQuestion(fnIn.question, fnIn.flags)]
  /\ UNCHANGED <<fnIn, serverVars>>

ApplyRenderTable ==
  /\ fnIn.fn = "renderTable"
  /\ ~fnOut.done
  /\ fnOut' = [done |-> TRUE, value |-> renderTable(fnIn.chunk, fnIn.rawRows)]
  /\ UNCHANGED <<fnIn, serverVars>>

\* The ranking section of the handler, from the scope filter to the slice
\* that gives top, taken one stage at a time.
RankStageNames ==
  <<"select", "score", "boost", "neighbor", "staleMdr", "staleTpt", "merge",
    "guaranteeDr", "guaranteeTpt", "dedup", "top">>

\* The stage of the given name applied to the record R of the values
\* computed so far, for the query of the call.
rankStage(name, R, call) ==
  CASE name = "select" ->
         selectStage(call.chunks, call.embeddings, call.scope)
    [] name = "score" -> scoreStage(R, call.qEmbedding, call.embeddings)
    [] name = "boost" ->
         boostStage(R, call.chunks, QueryCtx(call.scope, call.flags))
    [] name = "neighbor" -> neighborStage(R, call.chunks)
    [] name = "staleMdr" ->
         staleMdrStage(R, call.chunks, QueryCtx(call.scope, call.flags))
    [] name = "staleTpt" ->
         staleTptStage(R, call.chunks, QueryCtx(call.scope, call.flags))
    [] name = "merge" -> mergeStage(R)
    [] name = "guaranteeDr" ->
         guaranteeDrStage(R, call.chunks, QueryCtx(call.scope, call.flags))
    [] name = "guaranteeTpt" ->
         guaranteeTptStage(R, call.chunks, QueryCtx(call.scope, call.flags))
    [] name = "dedup" -> dedupStage(R, call.chunks)
    [] OTHER -> topStage(R, call.finalTopK)

\* As many competing records as the merge takes prose records, so that
\* records of the prose channel stay outside the merge.
DeepFillers == TEXT_LIMIT

\* A family of the deep corpus: one qualifying record as similar to the
\* usual query as the fillers, the fillers, and three qualifying records
\* that are less similar.
DeepFamilySize == DeepFillers + 4

DeepVec(k) ==
  CASE k = DeepFillers + 2 -> <<4, 3>>
    [] k = DeepFillers + 3 -> <<0, 5>>
    [] k = DeepFillers + 4 -> <<5, 0>>
    [] OTHER -> <<3, 4>>

\* A corpus with more prose records than the merge takes: a treatment
\* family (Module 4 chapter records among pediatric MDR records) and a
\* prevention family (Module 1 TPT records among contact records).
DiskDeep ==
  JsonCorpus(
    [i \in 1..(2 * DeepFamilySize) |->
       IF i <= DeepFamilySize
       THEN IF i = 1 THEN M4DrPart(1)
            ELSE IF i <= DeepFillers + 1 THEN PedsMdr(i)
            ELSE M4DrPart(i - DeepFillers)
       ELSE IF i = DeepFamilySize + 1 THEN M1TptPart(1)
            ELSE IF i <= DeepFamilySize + DeepFillers + 1
                 THEN PedsContact(i - DeepFamilySize)
            ELSE M1TptPart(i - DeepFamilySize - DeepFillers)],
    [i \in 1..(2 * DeepFamilySize) |->
       DeepVec(IF i <= DeepFamilySize THEN i ELSE i - DeepFamilySize)])

\* A table record of the handbook annex of the given number.
FillerTable(i) ==
  TableChunk("gen-tab-" \o ToString(i), "WHO_Handbook_2023",
             "Annex " \o ToString(i), "", "", "")

\* A corpus with more prose records than there are anchors, each in a
\* section of its own, and tables in the sections of the first, the tenth
\* and the eleventh of them; the last two prose records are the most
\* similar to the query vector (10, 0), the others to (3, 4).
DiskAnchors ==
  JsonCorpus(
    [i \in 1..(AnchorLimit + 5) |->
       IF i <= AnchorLimit + 2 THEN Filler(i)
       ELSE IF i = AnchorLimit + 3 THEN FillerTable(1)
       ELSE IF i = AnchorLimit + 4 THEN FillerTable(AnchorLimit)
       ELSE FillerTable(AnchorLimit + 1)],
    [i \in 1..(AnchorLimit + 5) |->
       IF i <= AnchorLimit THEN <<3, 4>>
       ELSE IF i <= AnchorLimit + 2 THEN <<4, 3>>
       ELSE <<0, 5>>])

\* Pediatric tables of regimens: one the manifest labels as a regimen
\* table, one the manifest gives no table_subtype; both attachments hold a
\* regimen table.
ChM5TabLabelled ==
  TableChunk("m5-tab-05", M5Doc, "5.3. Treatment of MDR/RR-TB in children",
             "treatment", "regimen", "tables/m5/Table_5.csv")

ChM5TabUnlabelled ==
  TableChunk("m5-tab-06", M5Doc, "5.3. Treatment of MDR/RR-TB in children",
             "treatment", "", "tables/m5/Table_6.csv")

\* A treatment corpus with a Module 4 drug-resistant chapter record and
\* pediatric regimen tables.
DiskStale ==
  [JsonCorpus(<<ChM4Dr, ChM5TabLabelled, ChM5TabUnlabelled, ChM4Tab>>,
              <<<<3, 4>>, <<4, 3>>, <<4, 3>>, <<0, 5>>>>)
     EXCEPT !.tables =
       [path \in {"tables/m5/Table_5.csv", "tables/m5/Table_6.csv"} |->
          AttachmentFile(TRUE, TabRegimen)]]

\* A prose record of a consolidated edition: its doc_id names Module 4
\* (treatment, 2025) and Module 5 (pediatrics), its section is the pediatric
\* section 5.2.
ChConsolidated ==
  Chunk("m45-ds-01", "WHO_Module4_Treatment_2025_Module5_Pediatrics",
        "5.2. Treatment of drug-susceptible TB in children", "treatment",
        "text", "2HRZ(E)/2HR for children")

DiskConsolidated ==
  JsonCorpus(<<ChConsolidated, ChM4Dr, ChM3Dx>>,
             <<<<3, 4>>, <<4, 3>>, <<5, 0>>>>)

\* The corpora, scopes, flags and query vectors the ranking section is
\* applied to.
RankDisks ==
  {DiskMixed, DiskDupIds, DiskUnderRanked, DiskLostTables, DiskDeep,
   DiskAnchors, DiskStale, DiskConsolidated}

RankScopes == {NoScope, "treatment", "diagnosis", "prevention", "screening"}

RankFlags == SUBSET {"special_populations", "drug_resistance", "tpt"}

RankVectors == {<<3, 4>>, <<10, 0>>}

\* The values the ranking section starts from: the store's arrays, the
\* scope and flags the handler resolved, and the normalised query embedding.
RankCall(d, scope, flags, v) ==
  [fn |-> "rank", chunks |-> d.chunks,
   embeddings |-> buildStore(1, d.chunks, readCorpus(d).vectors).embeddings,
   tables |-> d.tables, scope |-> scope, flags |-> flags,
   qEmbedding |-> normalize(v), finalTopK |-> DefaultTopK]

RankCalls ==
  {RankCall(d, scope, flags, v) :
     d \in RankDisks, scope \in RankScopes, flags \in RankFlags,
     v \in RankVectors}

\* No stage has run yet.
NoStages == [done |-> FALSE, value |-> <<>>]

\* The next stage of the ranking section runs on what the stages before it
\* left; fnOut.value holds the record after every stage that has run.
ApplyRankStage ==
  /\ fnIn.fn = "rank"
  /\ ~fnOut.done
  /\ \E n \in {Len(fnOut.value) + 1} :
       fnOut' =
         [done |-> n = Len(RankStageNames),
          value |-> Append(fnOut.value,
                           rankStage(RankStageNames[n],
                                     IF n = 1 THEN NoRank
                                     ELSE fnOut.value[n - 1],
                                     fnIn))]
  /\ UNCHANGED <<fnIn, serverVars>>

\* How many rows the attachment files given to normalizeTableRows hold at
\* most.
MaxRawRows == 3

\* What String(r.row_index) is for the rows of those files; "undefined" is
\* a file without a row_index column.
RowIndexValues == {"1", "2", "3", "undefined"}

\* The rows of a file whose rows carry the given row_index values: the row
\* at position p holds the cells "Ap" and "Bp".
RawRowsOf(indexes) ==
  [p \in 1..Len(indexes) |->
     RawRow(indexes[p], <<"A" \o ToString(p), "B" \o ToString(p)>>)]

NormalizeCalls ==
  {[fn |-> "normalizeTableRows", rawRows |-> RawRowsOf(indexes)] :
     indexes \in UNION {[1..n -> RowIndexValues] : n \in 1..MaxRawRows}}

ApplyNormalizeTableRows ==
  /\ fnIn.fn = "normalizeTableRows"
  /\ ~fnOut.done
  /\ fnOut' = [done |-> TRUE, value |-> normalizeTableRows(fnIn.rawRows)]
  /\ UNCHANGED <<fnIn, serverVars>>

\* The requests made of the tb_peds_tda endpoint and the keys the server is
\* configured with ("": none).
TdaKeys == {"", "secret"}

TdaAuthorizations == {"", "Bearer secret", "Bearer wrong", "Bearer ", "secret"}

TdaSymptoms ==
  {<<>>, [fever_gt_2w |-> TRUE, cough_gt_2w |-> TRUE, lethargy |-> FALSE],
   [tachypnoea |-> TRUE, tachycardia |-> FALSE, rash |-> TRUE]}

TdaInputs ==
  {[algorithm |-> a, age_band |-> b, symptoms |-> sy,
    vitals |-> [hr |-> hr, rr |-> NoVital], cxr |-> cx] :
     a \in {"", "A", "B", "C"}, b \in {"", "1-5y", ">5y", "adult"},
     sy \in TdaSymptoms, hr \in {NoVital, 130},
     cx \in {<<>>, [enlarged_nodes |-> TRUE]}}

TdaBodies ==
  {[kind |-> "object", input |-> i] : i \in TdaInputs}
    \cup {[kind |-> k, input |-> <<>>] : k \in {"empty", "garbage", "null"}}

TdaCalls ==
  {[fn |-> "tdaHandler", API_KEY |-> key,
    request |-> [method |-> m, authorization |-> auth, body |-> body]] :
     key \in TdaKeys, m \in {"POST", "GET"}, auth \in TdaAuthorizations,
     body \in TdaBodies}

ApplyTdaHandler ==
  /\ fnIn.fn = "tdaHandler"
  /\ ~fnOut.done
  /\ fnOut' = [done |-> TRUE, value |-> tdaHandler(fnIn.request, fnIn.API_KEY)]
  /\ UNCHANGED <<fnIn, serverVars>>

-----------------------------------------------------------------------------
(* Specifications *)

ServerIdle ==
  /\ RAG_STORE = NoStore
  /\ fileReads = 0
  /\ pc = [r \in Slots |-> "idle"]
  /\ req = [r \in Slots |-> NoRequest]
  /\ loc = [r \in Slots |-> InitLocals]
  /\ res = [r \in Slots |-> NoResponse]
  /\ mentor = MentorIdle

\* One query at a time, over every kind of request and corpus.
Init ==
  /\ disk \in QueryDisks
  /\ ServerIdle
  /\ fnIn = NoCall
  /\ fnOut = NoResult

Next ==
  \/ \E request \in QueryRequests : Receive(1, request)
  \/ LoadResume(1)
  \/ \E outcome \in QueryEmbedOutcomes : EmbedResume(1, outcome)
  \/ Release(1)

Spec == Init /\ [][Next]_vars

\* Queries in flight together, and an operator who replaces the files.
InitStore ==
  /\ disk \in StoreDisks
  /\ ServerIdle
  /\ fnIn = NoCall
  /\ fnOut = NoResult

NextStore ==
  \/ \E r \in Slots, request \in StoreRequests : Receive(r, request)
  \/ \E r \in Slots : LoadResume(r)
  \/ \E r \in Slots, outcome \in StoreEmbedOutcomes : EmbedResume(r, outcome)
  \/ \E r \in Slots : Release(r)
  \/ \E image \in StoreDisks : OperatorWrites(image)

SpecStore == InitStore /\ [][NextStore]_vars

\* inferScopeFromQuestion applied to every set of flags.
InitScope ==
  /\ disk = DiskSmall
  /\ ServerIdle
  /\ fnIn \in ScopeCalls
  /\ fnOut = NoResult

NextScope == ApplyInferScope

SpecScope == InitScope /\ [][NextScope]_vars

\* renderTable applied to every table under every caption.
InitTable ==
  /\ disk = DiskSmall
  /\ ServerIdle
  /\ fnIn \in TableCalls
  /\ fnOut = NoResult

NextTable == ApplyRenderTable

SpecTable == InitTable /\ [][NextTable]_vars

\* The ranking section applied to every corpus, scope, flag set and query
\* vector.
InitRank ==
  /\ disk = DiskSmall
  /\ ServerIdle
  /\ fnIn \in RankCalls
  /\ fnOut = NoStages

NextRank == ApplyRankStage

SpecRank == InitRank /\ [][NextRank]_vars

\* normalizeTableRows applied to files of up to MaxRawRows rows, with every
\* assignment of row_index values.
InitRows ==
  /\ disk = DiskSmall
  /\ ServerIdle
  /\ fnIn \in NormalizeCalls
  /\ fnOut = NoResult

NextRows == ApplyNormalizeTableRows

SpecRows == InitRows /\ [][NextRows]_vars

\* The tb_peds_tda endpoint applied to every request and server key.
InitTda ==
  /\ disk = DiskSmall
  /\ ServerIdle
  /\ fnIn \in TdaCalls
  /\ fnOut = NoResult

NextTda == ApplyTdaHandler

SpecTda == InitTda /\ [][NextTda]_vars

\* The tb-mentor handler serving one request, over every request and every
\* course the completions and the remote calls may take.
InitMentor ==
  /\ disk = DiskSmall
  /\ ServerIdle
  /\ fnIn = NoCall
  /\ fnOut = NoResult

NextMentor ==
  \/ \E request \in MentorRequests : MentorReceive(request)
  \/ \E completion \in Completions(mentor.rounds + 1) :
       CompletionResume(completion)
  \/ \E ok \in BOOLEAN : ToolResume(ok)
  \/ SummariesResume

SpecMentor == InitMentor /\ [][NextMentor]_vars

-----------------------------------------------------------------------------
(* Properties *)

\* The request in slot r was answered.
Answered(r) == pc[r] = "done"

\* The request in slot r was answered with HTTP 200.
Answered200(r) == Answered(r) /\ res[r].status = 200

\* The chunk_ids of a result list are pairwise different.
DistinctChunkIds(results) ==
  \A i, j \in 1..Len(results) :
    i # j => results[i].chunk_id # results[j].chunk_id

\* The top_k a request asks for: the number it carries, else the default.
RequestedTopK(request) ==
  IF request.body.top_k.t = "number" THEN request.body.top_k.v ELSE DefaultTopK

\* C1: every query answered with 200 returns n results with
\* 0 < n <= min(requested top_k, 8, corpus size) and no chunk_id twice,
\* whatever the corpus (chunks sharing or lacking a chunk_id included).
\* Stated for the requests that ask for at least one result.
C1_ResultCountAndIdentity ==
  \A r \in Slots :
    (Answered200(r) /\ RequestedTopK(req[r]) >= 1) =>
      LET n == Len(res[r].results)
      IN /\ 0 < n
         /\ n <= Min(RequestedTopK(req[r]),
                     Min(MaxTopK, Len(loc[r].store.chunks)))
         /\ DistinctChunkIds(res[r].results)

\* C2: when the scope in force matches no chunk, the handler ranks over
\* every index of the store, and a 200 answer over a corpus whose chunks all
\* have a chunk_id is not empty.
C2_ScopeFallback ==
  \A r \in Slots :
    (Answered(r) /\ loc[r].embedOk) =>
      LET st == loc[r].store
          full == fullIndicesOf(st.embeddings)
      IN filterIndicesByScope(full, st.chunks, loc[r].scope) = <<>> =>
           /\ loc[r].rank.indices = full
           /\ Answered200(r) =>
                /\ res[r].log.text_candidates + res[r].log.table_candidates
                     = Len(st.embeddings)
                /\ (\A k \in 1..Len(st.chunks) : st.chunks[k].chunk_id # "")
                     => res[r].results # <<>>

\* A 200 answer to a query whose scope matched no chunk of the corpus.
C2_Witness ==
  \E r \in Slots :
    /\ Answered200(r)
    /\ loc[r].scope # NoScope
    /\ filterIndicesByScope(fullIndicesOf(loc[r].store.embeddings),
                            loc[r].store.chunks, loc[r].scope) = <<>>
    /\ Len(res[r].results) > 1

\* C3: callers that are inside loadRagStore together, no store cached yet,
\* wait on one and the same read of the corpus files.
C3_ConcurrentCallersShareOneLoad ==
  \A r1, r2 \in Slots :
    (pc[r1] = "awaitLoad" /\ pc[r2] = "awaitLoad") =>
      loc[r1].loadNo = loc[r2].loadNo

\* C4: a call of loadRagStore answered from the cache read no file and
\* returned the very store object every other call of the process returned.
C4_LaterCallsReturnSameStore ==
  \A r1, r2 \in Slots :
    (loc[r1].store # NoStore /\ loc[r2].store # NoStore /\ loc[r2].cacheHit) =>
      /\ loc[r2].loadNo = 0
      /\ loc[r2].store = loc[r1].store

\* The question of the request in slot r is a non-blank string.
ValidQuery(r) ==
  /\ req[r].method = "POST"
  /\ req[r].body.kind = "object"
  /\ ~invalidQuestion(req[r].body.question)

\* C5: a store failure is not remembered: a valid query received while the
\* files on disk are a loadable, non-empty corpus is not answered with a
\* store error, whatever failed before it.
C5_StoreFailureNotRemembered ==
  \A r \in Slots :
    (Answered(r) /\ ValidQuery(r) /\ loc[r].diskValid) =>
      res[r].error \notin StoreErrors

\* C6: with a store whose chunk and embedding counts differ, every valid
\* query whose embedding was obtained is answered 200, and every position
\* returned has both a chunk and an embedding.
C6_CountMismatchTolerated ==
  \A r \in Slots :
    (/\ Answered(r)
     /\ loc[r].embedOk
     /\ Len(loc[r].store.chunks) # Len(loc[r].store.embeddings)) =>
      /\ res[r].status = 200
      /\ \A k \in 1..Len(loc[r].rank.top) :
           /\ HasChunk(loc[r].store.chunks, loc[r].rank.top[k].index)
           /\ loc[r].rank.top[k].index < Len(loc[r].store.embeddings)

\* The body of the request in slot r did not parse to an object.
MalformedBody(r) == req[r].body.kind \in {"unparseable", "null"}

\* C7: a POST whose body is malformed or whose question is missing, empty,
\* blank or not a string is answered with a 4xx error object, and neither
\* the store load nor the embedding call was started for it.
C7_InvalidRequestRejected ==
  \A r \in Slots :
    (/\ Answered(r)
     /\ req[r].method = "POST"
     /\ MalformedBody(r) \/ invalidQuestion(req[r].body.question)) =>
      /\ res[r].status \in 400..499
      /\ res[r].keys = {"error"}
      /\ loc[r].loadNo = 0
      /\ ~loc[r].cacheHit
      /\ ~loc[r].embedCalled

\* C8: no score is computed before the query embedding is in hand, and a
\* query whose embedQuestion failed is answered with a 500 error object
\* without results, nothing having been ranked for it.
C8_NoScoringWithoutEmbedding ==
  \A r \in Slots :
    /\ loc[r].scored => loc[r].embedOk
    /\ pc[r] \in {"awaitLoad", "awaitEmbed"} =>
         (~loc[r].scored /\ loc[r].rank = NoRank)
    /\ (Answered(r) /\ loc[r].embedCalled /\ ~loc[r].embedOk) =>
         /\ res[r].status = 500
         /\ res[r].keys = {"error"}
         /\ res[r].error \in EmbedErrors
         /\ res[r].results = <<>>
         /\ ~loc[r].scored
         /\ loc[r].rank = NoRank

\* A query over a loaded, non-empty store whose embedQuestion failed and
\* that was answered 500.
C8_Witness ==
  \E r \in Slots :
    /\ Answered(r)
    /\ loc[r].embedCalled
    /\ ~loc[r].embedOk
    /\ loc[r].store.chunks # <<>>
    /\ res[r].status = 500

\* The place of a scope in the order treatment > diagnosis > prevention >
\* screening.
PriorityRank(scope) ==
  CASE scope = "treatment" -> 1
    [] scope = "diagnosis" -> 2
    [] scope = "prevention" -> 3
    [] scope = "screening" -> 4
    [] OTHER -> 5

\* C9: when the flags imply scope candidates, inferScopeFromQuestion
\* returns the candidate that comes first in the order treatment >
\* diagnosis > prevention > screening, for every set of flags.
C9_ScopePriority ==
  fnOut.done =>
    LET candidates == topicCandidates(fnIn.flags)
    IN candidates # {} =>
         /\ fnOut.value \in candidates
         /\ \A c \in candidates :
              PriorityRank(fnOut.value) <= PriorityRank(c)

\* Flags that imply both treatment and diagnosis, resolved to treatment.
C9_Witness ==
  /\ fnOut.done
  /\ {"treatment", "diagnosis"} \subseteq topicCandidates(fnIn.flags)
  /\ fnOut.value = "treatment"

\* The request in slot r carries a scope and got as far as scope
\* resolution.
ExplicitScopeQuery(r) ==
  /\ req[r].method = "POST"
  /\ req[r].body.kind = "object"
  /\ Truthy(req[r].body.scope)
  /\ ~(Truthy(req[r].body.question) /\ req[r].body.question.t # "string")

\* C10: a scope the caller supplies is the scope in force, inference not
\* consulted: the ranking is the ranking under that scope, and the response
\* and the log carry it unchanged.
C10_ExplicitScopeUnchanged ==
  \A r \in Slots :
    (Answered(r) /\ ExplicitScopeQuery(r)) =>
      /\ loc[r].scope = req[r].body.scope.v
      /\ ~loc[r].scopeInferred
      /\ Answered200(r) =>
           /\ res[r].scope = req[r].body.scope
           /\ res[r].log.scope_used = req[r].body.scope
           /\ loc[r].rank =
                rankQuery(loc[r].store.chunks, loc[r].store.embeddings,
                          req[r].body.scope.v, loc[r].intentFlags,
                          loc[r].qEmbedding, loc[r].finalTopK)

\* A 200 answer under the caller's scope "diagnosis" to a question whose
\* flags imply treatment.
C10_Witness ==
  \E r \in Slots :
    /\ Answered200(r)
    /\ ExplicitScopeQuery(r)
    /\ req[r].body.scope = JSStr("diagnosis")
    /\ inferScopeFromQuestion(req[r].body.question.v, loc[r].intentFlags)
         = "treatment"
    /\ res[r].scope = JSStr("diagnosis")
    /\ res[r].results # <<>>

\* The population and context flags, which are no topic.
PopulationFlags == {"special_populations", "comorbidities"}

\* C11: the scope inferScopeFromQuestion returns is the scope it returns
\* for the same question and the same flags without special_populations
\* and comorbidities, and with both of them.
C11_ScopeIgnoresPopulationFlags ==
  fnOut.done =>
    /\ fnOut.value =
         inferScopeFromQuestion(fnIn.question, fnIn.flags \ PopulationFlags)
    /\ fnOut.value =
         inferScopeFromQuestion(fnIn.question, fnIn.flags \cup PopulationFlags)

\* A call with both population flags and no topical flag, resolved by the
\* keywords of the question.
C11_Witness ==
  /\ fnOut.done
  /\ fnIn.flags = PopulationFlags
  /\ fnIn.question = QDosing
  /\ fnOut.value = "treatment"

\* The module number of a scope, as a question mentions it.
ModuleMention(scope) ==
  CASE scope = "prevention" -> "module 1"
    [] scope = "screening" -> "module 2"
    [] scope = "diagnosis" -> "module 3"
    [] scope = "treatment" -> "module 4"

\* The question has at least 2 keyword hits for the scope or mentions the
\* scope's module number.
KeywordQualifies(question, scope) ==
  \/ keywordScore(toLowerCase(question), scopeKeywords(scope)) >= 2
  \/ includes(toLowerCase(question), ModuleMention(scope))

KeywordScopes == {"prevention", "screening", "diagnosis", "treatment"}

\* C12: when no flag yields a scope candidate, inferScopeFromQuestion
\* returns a scope exactly when the question has at least 2 keyword hits
\* for a scope or mentions its module number, and the scope returned is one
\* the question qualifies for; otherwise it returns none.
C12_KeywordFallback ==
  (fnOut.done /\ topicCandidates(fnIn.flags) = {}) =>
    /\ fnOut.value # NoScope =>
         /\ fnOut.value \in KeywordScopes
         /\ KeywordQualifies(fnIn.question, fnOut.value)
    /\ (\E sc \in KeywordScopes : KeywordQualifies(fnIn.question, sc)) =>
         fnOut.value # NoScope

\* The pediatric drug-resistance treatment query, and the TPT prevention
\* query: the guards of the two guarantee blocks.
PedsDrTreatmentQuery(r) ==
  /\ loc[r].scope = "treatment"
  /\ {"special_populations", "drug_resistance"} \subseteq loc[r].intentFlags

TptPreventionQuery(r) ==
  loc[r].scope = "prevention" /\ "tpt" \in loc[r].intentFlags

\* C13: a 200 answer to a pediatric drug-resistance treatment query whose
\* prose channel holds a Module 4 drug-resistant chapter chunk contains such
\* a chunk, and a 200 answer to a TPT prevention query whose prose channel
\* holds a Module 1 TPT chunk contains such a chunk.
C13_GuaranteedCoverage ==
  \A r \in Slots :
    Answered200(r) =>
      LET st == loc[r].store
          scoredText == loc[r].rank.scoredText
          results == res[r].results
      IN /\ (/\ PedsDrTreatmentQuery(r)
              /\ \E k \in 1..Len(scoredText) :
                   isModule4DrChunk(ChunkAt(st.chunks, scoredText[k].index)))
              => \E k \in 1..Len(results) : isModule4DrChunk(results[k])
         /\ (/\ TptPreventionQuery(r)
              /\ \E k \in 1..Len(scoredText) :
                   isModule1TptCandidate(
                     ChunkAt(st.chunks, scoredText[k].index)))
              => \E k \in 1..Len(results) : isModule1TptCandidate(results[k])

\* C14: the results of a 200 answer are in non-increasing order of their
\* final score, whatever boosts, penalties and forced inclusions applied.
C14_ResultsSortedByScore ==
  \A r \in Slots :
    Answered200(r) =>
      \A k \in 1..(Len(res[r].results) - 1) :
        res[r].results[k].score >= res[r].results[k + 1].score

\* A 200 answer to the pediatric drug-resistance treatment query, with a
\* Module 4 anchor, whose results mix prose and tables and fall strictly in
\* score.
C14_Witness ==
  \E r \in Slots :
    /\ Answered200(r)
    /\ PedsDrTreatmentQuery(r)
    /\ loc[r].rank.hasModule4DrAnchor
    /\ Len(res[r].results) >= 4
    /\ \E k \in 1..Len(res[r].results) :
         res[r].results[k].content_type = "table"
    /\ \A k \in 1..(Len(res[r].results) - 1) :
         res[r].results[k].score > res[r].results[k + 1].score


\* A call of renderTable that has returned.
Rendered == fnIn.fn = "renderTable" /\ fnOut.done

\* The header patterns each subtype-specific renderer looks for.
subtypeKeyWords(subtype) ==
  CASE subtype \in {"dosing", "peds_dosing"} -> WeightBandWords
    [] subtype = "regimen" ->
         {"regimen", "name", "strategy", "option", "drug", "component",
          "medicine", "composition", "duration", "months", "weeks", "days",
          "length of treatment"}
    [] subtype = "decision" ->
         {"if", "criteria", "condition", "situation", "scenario", "finding",
          "result", "status", "baseline", "risk", "then", "recommendation",
          "action", "management", "treatment", "decision", "next step",
          "regimen"}
    [] subtype = "timeline" ->
         {"baseline", "month", "week", "day", "visit", "timepoint",
          "end of treatment", "posttreatment", "follow-up", "follow up",
          "followup"}
    [] subtype = "interaction" ->
         {"comedication", "arv", "antiretroviral", "rifampin", "rifampicin",
          "rifapentine", "drug", "medicine", "regimen"}
    [] subtype = "toxicity" -> {"grade", "severity", "ctcae"}
    [] OTHER -> {}

\* Some column of the table, or for a timeline some cell of its first
\* column, matches the subtype's key patterns.
MeetsExpectations(subtype, T) ==
  \/ hasHeader(T, subtypeKeyWords(subtype))
  \/ /\ subtype = "timeline"
     /\ T.headers # <<>>
     /\ \E i \in 1..Len(T.rows) : looksTimeLike(T.rows[i][1])

\* C16: every subtype-specific renderer returns the generic column dump when
\* no column or row of the table matches the subtype's key patterns, and
\* none returns a summary made of its heading line alone for a table that
\* has rows.
C16_RenderersFallBackToGeneric ==
  Rendered /\ fnOut.value.subtype # "generic" =>
    LET T == normalizeTableRows(fnIn.rawRows)
    IN /\ ~MeetsExpectations(fnOut.value.subtype, T) =>
            fnOut.value.tableText = renderGenericTable(fnIn.chunk, T)
       /\ ~noRows(T) => includes(fnOut.value.tableText, "\n")

\* C17: a table classified dosing or peds_dosing none of whose header labels
\* is weight-band-like is rendered with exactly renderGenericTable's text.
C17_DosingWithoutWeightBands ==
  Rendered /\ fnOut.value.subtype \in {"dosing", "peds_dosing"} =>
    LET T == normalizeTableRows(fnIn.rawRows)
    IN ~hasHeader(T, WeightBandWords) =>
         fnOut.value.tableText = renderGenericTable(fnIn.chunk, T)

C17_Witness ==
  /\ Rendered
  /\ fnIn.rawRows = TabDoseNoBand
  /\ fnOut.value.subtype = "dosing"
  /\ ~hasHeader(normalizeTableRows(fnIn.rawRows), WeightBandWords)
  /\ includes(fnOut.value.tableText, "Columns: Medicine, Dose")
  /\ includes(fnOut.value.tableText, "Row 2: Medicine: Rifampicin")

\* The caption or the section marks the table as paediatric.
PaediatricTable(chunk) ==
  \/ has(toLowerCase(chunk.caption),
         {"child", "paediatric", "pediatric", "infant", "neonate"})
  \/ includes(toLowerCase(chunk.section_path), "child")

\* C18: the table with header row Weight band, Isoniazid (mg), Rifampicin
\* (mg) and two data rows is classified dosing and rendered with a summary
\* that names each drug column and gives the drug values of both rows, and
\* is not the flat per-row dump.
C18_WeightBandTableSummary ==
  Rendered /\ fnIn.rawRows = TabWeightBand /\ ~PaediatricTable(fnIn.chunk) =>
    /\ fnOut.value.subtype = "dosing"
    /\ \A part \in {"Isoniazid (mg)", "Rifampicin (mg)", "50", "100", "75",
                    "150"} : includes(fnOut.value.tableText, part)
    /\ fnOut.value.tableText
         # renderGenericTable(fnIn.chunk, normalizeTableRows(fnIn.rawRows))


\* The stored chunk behind result k of the response to r.
ResultChunk(r, k) == ChunkAt(loc[r].store.chunks, loc[r].rank.top[k].index)

\* Result k of the response to r is a table record whose attachment cannot
\* be read.
AttachmentUnreadable(r, k) ==
  /\ toLowerCase(ResultChunk(r, k).content_type) = "table"
  /\ ResultChunk(r, k).attachment_path # ""
  /\ loadTableRows(disk.tables, ResultChunk(r, k).attachment_path).threw

\* Result k is a table record whose attachment is read but gives no row.
AttachmentGarbled(r, k) ==
  /\ toLowerCase(ResultChunk(r, k).content_type) = "table"
  /\ ResultChunk(r, k).attachment_path # ""
  /\ ~loadTableRows(disk.tables, ResultChunk(r, k).attachment_path).threw
  /\ loadTableRows(disk.tables, ResultChunk(r, k).attachment_path).rows = <<>>

\* The query of r was ranked: the embedding came back and the ranking did
\* not throw.
Ranked(r) == Answered(r) /\ loc[r].embedOk /\ ~loc[r].rank.threw

MdrContactQuery(r) ==
  /\ pc[r] # "idle"
  /\ ValidQuery(r)
  /\ req[r].body.question = JSStr(QMdrContact)
  /\ ~Truthy(req[r].body.scope)

\* C19: for the question about the TPT regimen for a household contact of
\* an MDR-TB case, asked with no scope, the intent flags hold both dr_tpt
\* and tpt and the resolved scope is prevention.
C19_MdrContactFlagsAndScope ==
  \A r \in Slots :
    MdrContactQuery(r) =>
      /\ {"dr_tpt", "tpt"} \subseteq loc[r].intentFlags
      /\ loc[r].scope = "prevention"


\* The store as it was right after the load that made the cached one: the
\* files of the sequential specification never change.
StoreAsLoaded ==
  buildStore(RAG_STORE.id, readCorpus(disk).chunks, readCorpus(disk).vectors)

StageNo(name) ==
  CHOOSE n \in 1..Len(RankStageNames) : RankStageNames[n] = name

StageRan(name) == fnIn.fn = "rank" /\ Len(fnOut.value) >= StageNo(name)

After(name) == fnOut.value[StageNo(name)]

RankCtx == QueryCtx(fnIn.scope, fnIn.flags)

\* The guards of the two guarantee blocks, and the chunks each looks for.
GuaranteeDrGuard ==
  RankCtx.isTreatmentScope /\ RankCtx.isPediatric
    /\ RankCtx.hasDrugResistanceIntent

GuaranteeTptGuard == RankCtx.isPreventionScope /\ RankCtx.hasTptIntent

GuaranteeQualifies(c) ==
  IF GuaranteeDrGuard THEN isModule4DrChunk(c) ELSE isModule1TptCandidate(c)

\* The positions of the final merged list whose chunk the merge did not have.
GuaranteeAdded ==
  {k \in 1..Len(After("guaranteeTpt").combined) :
     \A m \in 1..Len(After("merge").combined) :
       After("merge").combined[m].index
         # After("guaranteeTpt").combined[k].index}

\* The entries of the prose channel that qualify and are in neither list.
GuaranteeLeftOut ==
  {t \in 1..Len(After("merge").scoredText) :
     /\ GuaranteeQualifies(
          ChunkAt(fnIn.chunks, After("merge").scoredText[t].index))
     /\ \A k \in 1..Len(After("guaranteeTpt").combined) :
          After("guaranteeTpt").combined[k].index
            # After("merge").scoredText[t].index}

\* C21: the guarantee blocks add at most two entries to the merged list of a
\* query; each entry added is an entry of the prose channel that qualifies
\* and that the merged list did not hold, no qualifying entry left out
\* scores higher than one added, and the entries of the merge stay as they
\* were; when neither guard holds the merged list is unchanged.
C21_GuaranteeAddsAtMostTwoProse ==
  StageRan("guaranteeTpt") =>
    LET merged == After("merge").combined
        final == After("guaranteeTpt").combined
        text == After("merge").scoredText
    IN IF ~(GuaranteeDrGuard \/ GuaranteeTptGuard) THEN final = merged
       ELSE /\ Cardinality(GuaranteeAdded) <= GuaranteeQuota
            /\ FilterSeq(final, (1..Len(final)) \ GuaranteeAdded) = merged
            /\ \A k \in GuaranteeAdded :
                 /\ \E t \in 1..Len(text) : text[t] = final[k]
                 /\ GuaranteeQualifies(ChunkAt(fnIn.chunks, final[k].index))
                 /\ toLowerCase(ChunkAt(fnIn.chunks, final[k].index).content_type)
                      # "table"
                 /\ \A j \in 1..Len(final) :
                      j # k => final[j].index # final[k].index
                 /\ \A t \in GuaranteeLeftOut : text[t].score <= final[k].score

\* A guarded query whose guarantee block added two entries, found a
\* qualifying entry in the merge already, and left a third one out.
C21_Witness ==
  /\ StageRan("guaranteeTpt")
  /\ GuaranteeDrGuard
  /\ Cardinality(GuaranteeAdded) = GuaranteeQuota
  /\ GuaranteeLeftOut # {}
  /\ \E m \in 1..Len(After("merge").combined) :
       GuaranteeQualifies(
         ChunkAt(fnIn.chunks, After("merge").combined[m].index))

\* The entry of a chunk in a channel (a list of entries), by its index.
EntryOf(channel, index) ==
  channel[CHOOSE k \in 1..Len(channel) : channel[k].index = index]

\* The entries of both channels after a stage, prose first.
Candidates(name) == After(name).scoredText \o After(name).scoredTables

\* The score the boost loop gives the chunk of entry e before its last
\* statement, the drug-susceptible penalty.
ScoreBeforePenalty(e) ==
  authorityBoost(EntryOf(Candidates("score"), e.index),
                 ChunkAt(fnIn.chunks, e.index), RankCtx,
                 toLowerCase(ChunkAt(fnIn.chunks, e.index).content_type)
                   = "table").score

\* C22: every chunk is a candidate once; the boost loops scale the score of a
\* candidate by 0.6 once when the query has the drug_resistance flag and the
\* chunk is classified drug-susceptible, and not at all otherwise.
C22_DsPenaltyOnceUnderFlag ==
  StageRan("boost") =>
    LET after == Candidates("boost")
    IN /\ \A j, k \in 1..Len(after) : after[j].index = after[k].index => j = k
       /\ \A k \in 1..Len(after) :
            after[k].score =
              IF /\ "drug_resistance" \in fnIn.flags
                 /\ isDrugSusceptibleChunk(ChunkAt(fnIn.chunks, after[k].index))
              THEN MulPct(ScoreBeforePenalty(after[k]), DsPenaltyPct)
              ELSE ScoreBeforePenalty(after[k])

\* A query with the flag whose channels hold a drug-susceptible prose chunk
\* and a drug-susceptible table, both scaled down, and a chunk that is not
\* drug-susceptible.
C22_Witness ==
  /\ StageRan("boost")
  /\ "drug_resistance" \in fnIn.flags
  /\ \E k \in 1..Len(After("boost").scoredText) :
       /\ isDrugSusceptibleChunk(
            ChunkAt(fnIn.chunks, After("boost").scoredText[k].index))
       /\ After("boost").scoredText[k].score
            < ScoreBeforePenalty(After("boost").scoredText[k])
  /\ \E k \in 1..Len(After("boost").scoredTables) :
       /\ isDrugSusceptibleChunk(
            ChunkAt(fnIn.chunks, After("boost").scoredTables[k].index))
       /\ After("boost").scoredTables[k].score
            < ScoreBeforePenalty(After("boost").scoredTables[k])
  /\ \E k \in 1..Len(After("boost").scoredText) :
       ~isDrugSusceptibleChunk(
          ChunkAt(fnIn.chunks, After("boost").scoredText[k].index))

\* A table chunk c is a neighbour: one of the first AnchorLimit prose
\* candidates, as the boost stage left them, has its doc_id and a section key
\* of its section_path.
IsNeighbourTable(c) ==
  \E a \in 1..Min(AnchorLimit, Len(After("boost").scoredText)) :
    /\ c.doc_id # ""
    /\ ChunkAt(fnIn.chunks, After("boost").scoredText[a].index).doc_id
         = c.doc_id
    /\ extractSectionKeys(
         ChunkAt(fnIn.chunks,
                 After("boost").scoredText[a].index).section_path)
         \cap extractSectionKeys(c.section_path) # {}

\* C23: after the section-proximity step a neighbour table scores at least
\* 0.98 times the best prose score; no table scores less than before the
\* step, a table that is not a neighbour scores what it did, and the prose
\* channel is as it was.
C23_NeighbourTablesFloor ==
  StageRan("neighbor") =>
    /\ After("neighbor").scoredText = After("boost").scoredText
    /\ Len(After("neighbor").scoredTables) = Len(After("boost").scoredTables)
    /\ \A k \in 1..Len(After("neighbor").scoredTables) :
         LET e == After("neighbor").scoredTables[k]
             before == EntryOf(After("boost").scoredTables, e.index)
         IN /\ e.score >= before.score
            /\ IF IsNeighbourTable(ChunkAt(fnIn.chunks, e.index))
               THEN e.score >= MulPct(After("boost").scoredText[1].score,
                                      NeighborFloorPct)
               ELSE e.score = before.score

\* The step raised a neighbour table to the floor and left alone a table
\* whose section is that of a prose candidate beyond the first AnchorLimit.
C23_Witness ==
  /\ StageRan("neighbor")
  /\ \E k \in 1..Len(After("neighbor").scoredTables) :
       /\ IsNeighbourTable(
            ChunkAt(fnIn.chunks, After("neighbor").scoredTables[k].index))
       /\ After("neighbor").scoredTables[k].score
            > EntryOf(After("boost").scoredTables,
                      After("neighbor").scoredTables[k].index).score
  /\ \E k \in 1..Len(After("neighbor").scoredTables),
        t \in (AnchorLimit + 1)..Len(After("boost").scoredText) :
       /\ ~IsNeighbourTable(
             ChunkAt(fnIn.chunks, After("neighbor").scoredTables[k].index))
       /\ ChunkAt(fnIn.chunks, After("boost").scoredText[t].index).section_path
            = ChunkAt(fnIn.chunks,
                      After("neighbor").scoredTables[k].index).section_path

\* The guard of the pediatric stale-table rule: a treatment query with the
\* pediatric and drug-resistance flags, and among the first AnchorLimit prose
\* candidates a chunk of the 2025 Module 4 drug-resistant treatment chapter.
StaleMdrGuard ==
  /\ GuaranteeDrGuard
  /\ \E a \in 1..Min(AnchorLimit, Len(After("boost").scoredText)) :
       LET ac == ChunkAt(fnIn.chunks, After("boost").scoredText[a].index)
       IN isModule4DrChunk(ac) /\ includes(toLowerCase(ac.doc_id), "2025")

\* A table of the pediatric module whose subtype, as the enrichment of the
\* results detects and reports it, is regimen or decision.
ReportedPedsRegimenOrDecision(c) ==
  /\ includes(toLowerCase(c.doc_id), "module5")
  /\ includes(toLowerCase(c.doc_id), "pediatr")
  /\ enrichChunkWithTable(c, fnIn.tables).table_subtype
       \in {"regimen", "decision"}

\* C24: under its guard the stale-table rule scales by 0.97, once, the score
\* of every table of the pediatric module whose reported subtype is regimen
\* or decision, and no other score; when the guard is false it changes no
\* score.
C24_StalePedsTablesPenalised ==
  StageRan("staleMdr") =>
    /\ After("staleMdr").scoredText = After("neighbor").scoredText
    /\ \A k \in 1..Len(After("staleMdr").scoredTables) :
         LET e == After("staleMdr").scoredTables[k]
             before == EntryOf(After("neighbor").scoredTables, e.index)
         IN e.score =
              IF /\ StaleMdrGuard
                 /\ ReportedPedsRegimenOrDecision(ChunkAt(fnIn.chunks, e.index))
              THEN MulPct(before.score, StalePenaltyPct)
              ELSE before.score

\* The score the boost loop leaves for the chunk of entry e when the boosts
\* have made x of its similarity score.
AfterPenalty(e, x) ==
  dsPenalty(Entry(e.index, x), ChunkAt(fnIn.chunks, e.index), RankCtx).score

\* C25: the boost loops scale the score of a candidate by 1.03 at most once,
\* and not at all when the query has no scope or the scope screening.
C25_AuthorityBoostAtMostOnce ==
  StageRan("boost") =>
    \A k \in 1..Len(Candidates("boost")) :
      LET e == Candidates("boost")[k]
          x == EntryOf(Candidates("score"), e.index).score
      IN /\ e.score \in {AfterPenalty(e, x),
                         AfterPenalty(e, MulPct(x, AuthorityBoostPct))}
         /\ fnIn.scope \in {NoScope, "screening"} =>
              e.score = AfterPenalty(e, x)

\* The position of the header row of the file of the call: the first row
\* whose row_index is 1, else the first row.
HeaderPosition ==
  IF \E p \in 1..Len(fnIn.rawRows) : fnIn.rawRows[p].row_index = "1"
  THEN CHOOSE p \in 1..Len(fnIn.rawRows) :
         /\ fnIn.rawRows[p].row_index = "1"
         /\ \A q \in 1..(p - 1) : fnIn.rawRows[q].row_index # "1"
  ELSE 1

\* C26: normalizeTableRows returns one logical row for every raw row other
\* than the header row, in input order, holding that row's cells under the
\* header labels: one row fewer than the file has.
C26_OneLogicalRowPerDataRow ==
  (fnIn.fn = "normalizeTableRows" /\ fnOut.done) =>
    LET others == PositionsIn(Len(fnIn.rawRows),
                              (1..Len(fnIn.rawRows)) \ {HeaderPosition})
    IN /\ Len(fnOut.value.rows) = Len(fnIn.rawRows) - 1
       /\ \A i \in 1..Len(others) :
            fnOut.value.rows[i] = fnIn.rawRows[others[i]].cells

\* C27: a table is classified regimen only when one of its headers names a
\* drug, component, medicine or combination column next to the regimen cue.
C27_RegimenNeedsCompanionColumn ==
  (Rendered /\ fnOut.value.subtype = "regimen") =>
    hasHeader(normalizeTableRows(fnIn.rawRows),
              {"drug", "component", "medicine", "combination"})

\* The checks of the tb_peds_tda endpoint on the request of the call: the
\* method, the server's key, the Authorization header, and the body with its
\* inputs (an object whose algorithm is A or B and whose age_band is given).
TdaMethodOk == fnIn.request.method = "POST"

TdaKeyOk == fnIn.API_KEY # ""

TdaAuthOk == fnIn.request.authorization = "Bearer " \o fnIn.API_KEY

TdaInputsOk ==
  \/ /\ fnIn.request.body.kind = "object"
     /\ fnIn.request.body.input.algorithm \in {"A", "B"}
     /\ fnIn.request.body.input.age_band # ""

\* C30: the endpoint answers 200 only to a POST with the server's key
\* configured, the Authorization header equal to Bearer and the key, and
\* valid inputs; a request that fails a check is answered for the first
\* check it fails, in the order method (405), key (500), authorization
\* (401), body and inputs (400); and computePediatricTbTdaScore is not run
\* for a request that fails the method, key or authorization check.
C30_TdaChecksInOrder ==
  (fnIn.fn = "tdaHandler" /\ fnOut.done) =>
    /\ fnOut.value.status = 200 =>
         TdaMethodOk /\ TdaKeyOk /\ TdaAuthOk /\ TdaInputsOk
    /\ fnOut.value.status =
         IF ~TdaMethodOk THEN 405
         ELSE IF ~TdaKeyOk THEN 500
         ELSE IF ~TdaAuthOk THEN 401
         ELSE IF ~TdaInputsOk THEN 400
         ELSE 200
    /\ fnOut.value.computed => TdaMethodOk /\ TdaKeyOk /\ TdaAuthOk

\* C28: callTda is invoked only after a callRag of the same request has
\* returned.
C28_TdaOnlyAfterGuidanceReturned ==
  \A k \in 1..Len(mentor.calls) :
    mentor.calls[k] = "callTda" =>
      \E j \in 1..(k - 1) :
        mentor.calls[j] = "callRag" /\ mentor.calls[j + 1] = "returned"

\* The tool messages that answer the tool calls of the assistant message at
\* position p are there: one for each call, in call order, with its id.
ToolCallsAnswered(p) ==
  \A c \in 1..Len(mentor.messages[p].tool_calls) :
    /\ p + c <= Len(mentor.messages)
    /\ mentor.messages[p + c].role = "tool"
    /\ mentor.messages[p + c].tool_call_id
         = mentor.messages[p].tool_calls[c].id
    /\ mentor.messages[p].tool_calls[c].name \notin
         {"fetchRelevantTbGuidance", "computePediatricTbTdaScore"}
         => mentor.messages[p + c].content
              = UnknownTool(mentor.messages[p].tool_calls[c].name)

\* How many tool calls the assistant messages up to position p carry.
RECURSIVE ToolCallCount(_)
ToolCallCount(p) ==
  IF p = 0 THEN 0
  ELSE Len(mentor.messages[p].tool_calls) + ToolCallCount(p - 1)

\* One of the handler's awaits threw: a completion, or a remote call.
MentorThrew == \E k \in 1..Len(mentor.calls) : mentor.calls[k] = "threw"

\* C29: when the handler requests a completion (and when it has its final
\* answer) every assistant message with tool calls is followed by one tool
\* message for each of its calls, in call order and with the call's id, an
\* unknown tool being answered with an error result, and there is no other
\* tool message; a 200 is sent only on an assistant message without tool
\* calls; when a completion or a remote call has thrown the response is 500.
C29_ToolMessagesThenCompletion ==
  /\ mentor.pc \in {"awaitCompletion", "awaitSummaries"}
       \/ mentor.res.status = 200
     => /\ \A p \in 1..Len(mentor.messages) : ToolCallsAnswered(p)
        /\ Cardinality({p \in 1..Len(mentor.messages) :
                          mentor.messages[p].role = "tool"})
             = ToolCallCount(Len(mentor.messages))
  /\ mentor.res.status = 200 =>
       /\ mentor.pc = "done"
       /\ mentor.messages[Len(mentor.messages)].role = "assistant"
       /\ mentor.messages[Len(mentor.messages)].tool_calls = <<>>
  /\ MentorThrew => mentor.pc = "done" /\ mentor.res.status = 500
  /\ mentor.res.status # 0 <=> mentor.pc = "done"

\* A request answered 200 after two assistant messages with tool calls,
\* among them a call of an unknown tool, and remote calls that returned.
C29_Witness ==
  /\ mentor.res.status = 200
  /\ mentor.rounds = MaxToolRounds
  /\ \E p \in 1..Len(mentor.messages) :
       /\ Len(mentor.messages[p].tool_calls) = MaxToolCalls
       /\ mentor.messages[p].tool_calls[1].name = "lookupDrug"
  /\ \E k \in 1..Len(mentor.calls) : mentor.calls[k] = "returned"

====
